---------------------------- MODULE Spec2Model ----------------------------
(***************************************************************************)
(* A model of the Rudimentary-Compiler front end: the Lexer (Lexer.h),     *)
(* the recursive-descent Parser (Parser.h), the SemanticAnalyzer with its  *)
(* SymbolTable (SemanticAnalyzer.h, SymbolTable.h) and the driver loop of  *)
(* main.cpp.                                                               *)
(*                                                                         *)
(* Characters are one-character strings, a source text is a sequence of    *)
(* characters, and a std::string value (a token's literal) is a sequence   *)
(* of characters too.  Positions are 0-based as in the C++ code, so the    *)
(* character source[pos] is src[pos + 1] here.                             *)
(***************************************************************************)
EXTENDS Integers, Sequences, FiniteSets, TLC

VARIABLES
    source,      \* main: the content of the file being compiled
    lexer,       \* main: the Lexer object (pos, line, error_count, tokens)
    index,       \* main: the program counter `index` of the while loop
    pc,          \* main: the position of the driver inside its loop body
    tokens_opt,  \* main: `tokens`, the optional returned by lexer.scan()
    cst_opt,     \* main: `cst`, the optional returned by parser.parse()
    runs,        \* the stages run for each program so far (what main logged)
    p_tokens,    \* Parser: the token vector handed to the constructor
    p_result,    \* Parser: the outcome of parse()
    az,          \* SemanticAnalyzer: tokens, cursor, symbol table, error count
    lx,          \* Lexer: two Lexer objects, one on a text and one on an edited copy
    cb           \* CodeBuffer: the memory image, position, heap and temp addresses

vars ==
    <<source, lexer, index, pc, tokens_opt, cst_opt, runs, p_tokens, p_result, az, lx, cb>>

(***************************************************************************)
(* Lexer.h: character constants and <cctype> classification.              *)
(***************************************************************************)
SPACE == " "
TAB == "\t"
NEWLINE == "\n"
CARRIAGE_RETURN == "\r"
EOP == "$"
\* '\0': what peek()/next()/prev() return outside the text, and what
\* source[size()] holds.  Source texts hold no NUL character themselves.
EOFILE == "NUL"

Lower == {"a", "b", "c", "d", "e", "f", "g", "h", "i", "j", "k", "l", "m",
          "n", "o", "p", "q", "r", "s", "t", "u", "v", "w", "x", "y", "z"}
Upper == {"A", "B", "C", "D", "E", "F", "G", "H", "I", "J", "K", "L", "M",
          "N", "O", "P", "Q", "R", "S", "T", "U", "V", "W", "X", "Y", "Z"}
DigitChars == <<"0", "1", "2", "3", "4", "5", "6", "7", "8", "9">>

isalpha(c) == c \in Lower \cup Upper
islower(c) == c \in Lower
isdigit(c) == \E i \in 1..10 : DigitChars[i] = c
isspace(c) == c \in {SPACE, TAB, NEWLINE, CARRIAGE_RETURN, "\f"}

\* ch - '0' for a digit character
DigitValue(c) == (CHOOSE i \in 1..10 : DigitChars[i] = c) - 1

\* the decimal digits of the magnitude of an int below 0
RECURSIVE digits_below_zero(_)
digits_below_zero(n) ==
    IF n > -10 THEN <<DigitChars[1 - n]>>
    ELSE Append(digits_below_zero((n + ((10 - (n % 10)) % 10)) \div 10),
                DigitChars[((10 - (n % 10)) % 10) + 1])

\* std::to_string(int)
RECURSIVE to_string(_)
to_string(n) ==
    IF n < 0 THEN <<"-">> \o digits_below_zero(n)
    ELSE IF n < 10 THEN <<DigitChars[n + 1]>>
    ELSE Append(to_string(n \div 10), DigitChars[(n % 10) + 1])

\* the high and the low 16 bits of an int (32 bits, two's complement)
high16(n) == IF n >= 0 THEN n \div 65536 ELSE 65535 - ((-(n + 1)) \div 65536)
low16(n) == IF n >= 0 THEN n % 65536 ELSE 65535 - ((-(n + 1)) % 65536)

\* the int with the 32 bits hi, lo
int32(hi, lo) ==
    IF hi < 32768 THEN (hi * 65536) + lo
    ELSE -(((65535 - hi) * 65536) + (65535 - lo)) - 1

\* `value *= 10; value += ch - '0';` on an int: the overflow of the signed
\* int is undefined; the value is the one a two's complement build computes
times_ten_plus(value, d) ==
    int32(((high16(value) * 10) + (((low16(value) * 10) + d) \div 65536)) % 65536,
          ((low16(value) * 10) + d) % 65536)

\* The keywords scan_keyword compares the alphabetic run with.
KW_print == <<"p", "r", "i", "n", "t">>
KW_if == <<"i", "f">>
KW_while == <<"w", "h", "i", "l", "e">>
KW_int == <<"i", "n", "t">>
KW_string == <<"s", "t", "r", "i", "n", "g">>
KW_boolean == <<"b", "o", "o", "l", "e", "a", "n">>
KW_true == <<"t", "r", "u", "e">>
KW_false == <<"f", "a", "l", "s", "e">>

(***************************************************************************)
(* Token.h                                                                 *)
(***************************************************************************)
TokenTypes == {"EOP", "OPEN_BLOCK", "CLOSE_BLOCK", "PRINT", "ASSIGN_OP", "WHILE",
               "IF", "OPEN_PARENTHESIS", "CLOSE_PARENTHESIS", "I_TYPE", "ID",
               "NUMBER", "QUOTE", "CHAR", "BOOL_VAL", "EQUALITY_OP",
               "INEQUALITY_OP", "INT_OP", "UNKNOWN"}

Token(type, value, line) == [type |-> type, value |-> value, line |-> line]

(***************************************************************************)
(* Lexer.h: the Lexer object.  `column` only feeds the text of the log     *)
(* messages and is left out; `diags` is what log() wrote during the        *)
(* current scan() call, the DEBUG line of each token excepted (it is the   *)
(* token itself).                                                          *)
(***************************************************************************)
NewLexer == [pos |-> 0, line |-> 1, error_count |-> 0, tokens |-> <<>>, diags |-> <<>>]

\* source[i] for 0 <= i <= size(): std::string holds '\0' at index size()
CharAt(src, i) == IF i < Len(src) THEN src[i + 1] ELSE EOFILE

isEOF(src, L) == L.pos >= Len(src)

peek(src, L) == IF isEOF(src, L) THEN EOFILE ELSE CharAt(src, L.pos)

next(src, L) == IF L.pos + 1 >= Len(src) THEN EOFILE ELSE CharAt(src, L.pos + 1)

prev(src, L) == IF L.pos = 0 THEN EOFILE ELSE CharAt(src, L.pos - 1)

\* advance() returns source[pos++]; the value returned is prev() of the result.
advance(src, L) ==
    [L EXCEPT !.pos = @ + 1,
              !.line = IF CharAt(src, L.pos) = NEWLINE THEN @ + 1 ELSE @]

log(L, level, message) ==
    [L EXCEPT !.diags = Append(@, <<level, message>>),
              !.error_count = IF level = "ERROR" THEN @ + 1 ELSE @]

addTokenWithCustomMessage(L, type, value, line) ==
    [L EXCEPT !.tokens = Append(@, Token(type, value, line))]

addToken(L, type, value) == addTokenWithCustomMessage(L, type, value, L.line)

\* match(): the loop `while (peek() != '*' && peek() != EOFILE) advance();`
RECURSIVE match_skip(_, _)
match_skip(src, L) ==
    IF peek(src, L) # "*" /\ peek(src, L) # EOFILE
    THEN match_skip(src, advance(src, L))
    ELSE L

\* match(expected): the result and the lexer after the call
match(src, L, expected) ==
    IF isEOF(src, L) THEN [ok |-> FALSE, L |-> L]
    ELSE
      LET inComment == CharAt(src, L.pos) = "/" /\ next(src, L) = "*"
          L1 == IF inComment THEN match_skip(src, advance(src, advance(src, L))) ELSE L
          L2 == IF inComment /\ peek(src, L1) = "*" /\ next(src, L1) = "/"
                THEN advance(src, advance(src, L1)) ELSE L1
      IN  IF inComment /\ peek(src, L2) = EOFILE
          THEN [ok |-> FALSE, L |-> log(L2, "WARNING", "Unterminated comment")]
          ELSE IF isEOF(src, L2) \/ CharAt(src, L2.pos) # expected
               THEN [ok |-> FALSE, L |-> L2]
               ELSE [ok |-> TRUE, L |-> [L2 EXCEPT !.pos = @ + 1]]

\* scan_string(): the while loop over the characters of the literal
RECURSIVE scan_string_loop(_, _)
scan_string_loop(src, L) ==
    LET ch == peek(src, L) IN
    IF ch # "\"" /\ ch # EOFILE /\ (isalpha(ch) \/ isspace(ch))
    THEN LET L1 == IF ~islower(ch) /\ ch # SPACE
                   THEN log(L, "ERROR", "Unrecognized character")
                   ELSE addToken(L, "CHAR", <<ch>>)
         IN  scan_string_loop(src, advance(src, L1))
    ELSE L

scan_string(src, L) ==
    LET L1 == scan_string_loop(src, L) IN
    IF isEOF(src, L1) \/ peek(src, L1) # "\""
    THEN log(L1, "ERROR", "Unterminated string")
    ELSE addToken(advance(src, L1), "QUOTE", <<"\"">>)

\* scan_comment(): the while loop up to the closing "*/" or the end of input
RECURSIVE scan_comment_loop(_, _)
scan_comment_loop(src, L) ==
    IF (peek(src, L) # "*" /\ peek(src, L) # EOFILE)
       \/ (next(src, L) # "/" /\ next(src, L) # EOFILE)
    THEN scan_comment_loop(src, advance(src, L))
    ELSE L

scan_comment(src, L) ==
    LET L1 == scan_comment_loop(src, L)
        L2 == IF (peek(src, L1) = "*" /\ next(src, L1) # "/") \/ isEOF(src, L1)
              THEN log(L1, "WARNING", "Unterminated comment") ELSE L1
    IN  advance(src, L2)

\* scan_keyword(): `while (isalpha(peek())) advance();`
RECURSIVE scan_keyword_loop(_, _)
scan_keyword_loop(src, L) ==
    IF isalpha(peek(src, L)) THEN scan_keyword_loop(src, advance(src, L)) ELSE L

scan_keyword(src, L) ==
    LET start == L.pos - 1
        L1 == scan_keyword_loop(src, L)
        keyword == SubSeq(src, start + 1, L1.pos)
    IN  IF keyword = KW_print THEN addToken(L1, "PRINT", keyword)
        ELSE IF keyword = KW_if THEN addToken(L1, "IF", keyword)
        ELSE IF keyword = KW_while THEN addToken(L1, "WHILE", keyword)
        ELSE IF keyword \in {KW_int, KW_string, KW_boolean}
             THEN addTokenWithCustomMessage(L1, "I_TYPE", keyword, L1.line)
        ELSE IF keyword \in {KW_true, KW_false}
             THEN addTokenWithCustomMessage(L1, "BOOL_VAL", keyword, L1.line)
        ELSE addTokenWithCustomMessage(L1, "ID", keyword, L1.line)

\* scan_number(): the do-while loop; the lexer, the value and the last `ch`
RECURSIVE scan_number_loop(_, _, _, _)
scan_number_loop(src, L, value, ch) ==
    LET v == times_ten_plus(value, DigitValue(ch))
        L1 == advance(src, L)
        ch1 == prev(src, L1)
    IN  IF ch1 # EOFILE /\ isdigit(ch1)
        THEN scan_number_loop(src, L1, v, ch1)
        ELSE [L |-> L1, value |-> v, ch |-> ch1]

scan_number(src, L) ==
    LET first_pos == L.pos
        r == scan_number_loop(src, L, 0, prev(src, L))
        L1 == IF r.L.pos > first_pos THEN [r.L EXCEPT !.pos = @ - 1] ELSE r.L
        L2 == IF r.ch = NEWLINE THEN [L1 EXCEPT !.line = @ - 1] ELSE L1
    IN  addTokenWithCustomMessage(L2, "NUMBER", to_string(r.value), L2.line)

\* scan_token(): `auto c = advance(); while (isspace(c)) c = advance();`
RECURSIVE skip_space(_, _)
skip_space(src, L) ==
    LET L1 == advance(src, L) IN
    IF isspace(prev(src, L1)) THEN skip_space(src, L1) ELSE L1

\* scan_token(): case '/'
scan_slash(src, m) == IF m.ok THEN scan_comment(src, m.L) ELSE m.L

\* scan_token(): case '='
scan_equals(m) ==
    IF m.ok THEN addToken(m.L, "EQUALITY_OP", <<"=", "=">>)
    ELSE addToken(m.L, "ASSIGN_OP", <<"=">>)

\* scan_token(): case '!'
scan_bang(m) ==
    IF m.ok THEN addToken(m.L, "INEQUALITY_OP", <<"!", "=">>)
    ELSE log(m.L, "WARNING", "Expected '='")

\* scan_token(): the switch on the first character that is no white space
scan_switch(src, L1) ==
    LET c == prev(src, L1)
    IN  CASE c = "{" -> addToken(L1, "OPEN_BLOCK", <<"{">>)
          [] c = "}" -> addToken(L1, "CLOSE_BLOCK", <<"}">>)
          [] c = "(" -> addToken(L1, "OPEN_PARENTHESIS", <<"(">>)
          [] c = ")" -> addToken(L1, "CLOSE_PARENTHESIS", <<")">>)
          [] c = "/" -> scan_slash(src, match(src, L1, "*"))
          [] c = "+" -> addToken(L1, "INT_OP", <<"+">>)
          [] c = "\"" -> scan_string(src, addToken(L1, "QUOTE", <<"\"">>))
          [] c = "=" -> scan_equals(match(src, L1, "="))
          [] c = "!" -> scan_bang(match(src, L1, "="))
          [] c = "$" -> addToken(L1, "EOP", <<"$">>)
          [] OTHER -> IF isalpha(c) THEN scan_keyword(src, L1)
                      ELSE IF isdigit(c) THEN scan_number(src, L1)
                      ELSE log(L1, "ERROR", "Unrecognized Token")

scan_token(src, L) == scan_switch(src, skip_space(src, L))

\* A do-while loop whose body never runs
scan_loop_never(src, L) == L

RECURSIVE scan_loop(_, _)
\* scan(): the test of `do { scan_token(); } while (!isEOF() && prev() != EOP);`
scan_while(src, L1) ==
    IF ~isEOF(src, L1) /\ prev(src, L1) # EOP THEN scan_loop(src, L1) ELSE L1

\* scan(): the do-while loop
scan_loop(src, L) == scan_while(src, scan_token(src, L))

\* scan(): the first two statements, error_count = 0 and tokens.clear()
scan_reset(L) == [L EXCEPT !.error_count = 0, !.tokens = <<>>, !.diags = <<>>]

\* scan(): what follows the loop; the lexer after the call and the optional returned
scan_return(L1) ==
    IF L1.error_count > 0
    THEN [L |-> log(L1, "ERROR", "Lex failed"), has_value |-> FALSE, value |-> <<>>]
    ELSE [L |-> log(IF L1.tokens # <<>> /\ L1.tokens[Len(L1.tokens)].type # "EOP"
                    THEN log(L1, "ERROR", "Final program missing terminating '$'")
                    ELSE L1,
                    "INFO", "Lex completed with 0 errors"),
          has_value |-> TRUE, value |-> L1.tokens]

scan(src, L) == scan_return(scan_loop(src, scan_reset(L)))

(***************************************************************************)
(* Parser.h: Node and CST.  A node is its name, its value and its ordered  *)
(* children; a terminal is a node with an empty name holding a token's     *)
(* literal.                                                                *)
(***************************************************************************)
Node(name, value) == [name |-> name, value |-> value, children |-> <<>>]

\* The effect of parent.addChild(...) once the child has been filled in.
addChild(parent, child) == [parent EXCEPT !.children = Append(@, child)]

(***************************************************************************)
(* Parser.h: the Parser object.  `pos` is the index of current_token in    *)
(* `tokens` (1-based), Len(tokens) + 1 standing for tokens.end().  Reading *)
(* *current_token at tokens.end() is undefined behaviour: `oob` records    *)
(* that it happened and the read yields the token `garbage`, which the     *)
(* caller of parse() chooses among the outcomes of the read.  `open` holds *)
(* the nodes of the tree whose functions have not returned yet, the root   *)
(* first: a node is appended to its parent's children when the function    *)
(* that added it returns, nothing else being added to the parent meanwhile.*)
(***************************************************************************)
NewParser(garbage) ==
    [pos |-> 1, error_count |-> 0, oob |-> FALSE, garbage |-> garbage,
     open |-> <<Node("Program", <<>>)>>,
     active |-> <<>>, descents |-> 0, stuck |-> FALSE]

\* *current_token
P_current(t, S) == IF S.pos <= Len(t) THEN t[S.pos] ELSE S.garbage

\* the parser after a read of *current_token
P_deref(t, S) == IF S.pos <= Len(t) THEN S ELSE [S EXCEPT !.oob = TRUE]

\* advance() that leaves the cursor where it is
P_advance_never(t, S) == S

P_advance(t, S) == IF S.pos # Len(t) + 1 THEN [S EXCEPT !.pos = @ + 1] ELSE S

\* the calls of `name` that have not returned yet, each with the cursor at
\* its entry, are kept in `active`: a call of `name` is entered
P_enter(S, name) ==
    [S EXCEPT !.active = Append(@, [name |-> name, pos |-> S.pos]),
              !.descents = IF \E i \in 1..Len(S.active) : S.active[i].name = name
                           THEN @ + 1 ELSE @]

\* the call entered last returns
P_leave(S) == [S EXCEPT !.active = SubSeq(@, 1, Len(@) - 1)]

\* a call of `name` inside a call of `name` with the cursor where that one
\* found it: the same calls follow without end
P_recurs(S, name) ==
    \E i \in 1..Len(S.active) : S.active[i].name = name /\ S.active[i].pos >= S.pos

\* the call that never returns
P_hang(S) == [S EXCEPT !.stuck = TRUE]

P_log(S, level) == IF level = "ERROR" THEN [S EXCEPT !.error_count = @ + 1] ELSE S

P_report_token_mismatch(S) == P_log(S, "ERROR")

\* auto &node = parent.addChild(name): the node is filled in on top of `open`
P_open(S, node) == [S EXCEPT !.open = Append(@, node)]

\* the function that added the node returns: the node now stands in its parent
P_close(S) ==
    LET n == Len(S.open)
    IN  [S EXCEPT !.open = Append(SubSeq(@, 1, n - 2), addChild(@[n - 1], @[n]))]

\* node.addChild(child) for the node on top of `open`
\* an addChild that adds nothing
P_add_nothing(S, child) == S

P_add(S, child) == [S EXCEPT !.open[Len(S.open)] = addChild(@, child)]

\* match(node, token) for the node on top of `open`
P_match(t, S, token) ==
    IF P_current(t, S).type = token
    THEN P_advance(t, P_add(P_deref(t, S), Node("", P_current(t, S).value)))
    ELSE P_report_token_mismatch(P_deref(t, S))

\* parse_statement_list() with the case label of IF left out
StatementStartWithoutIf == {"PRINT", "ID", "I_TYPE", "WHILE", "OPEN_BLOCK"}

\* The case labels of parse_statement_list() that start a statement
StatementStart == {"PRINT", "ID", "I_TYPE", "WHILE", "IF", "OPEN_BLOCK"}

RECURSIVE P_parse_block(_, _), P_parse_statement_list(_, _),
          P_parse_statement(_, _), P_parse_print_statement(_, _),
          P_parse_assignment_statement(_, _), P_parse_var_declaration(_, _),
          P_parse_while_statement(_, _), P_parse_if_statement(_, _),
          P_parse_expression(_, _), P_parse_int_expression(_, _),
          P_parse_string_expression(_, _), P_parse_boolean_expression(_, _),
          P_parse_char_list_loop(_, _), P_char_list_again(_, _, _)

P_parse_id(t, S) == P_close(P_match(t, P_open(S, Node("Id", <<>>)), "ID"))

\* parse_char_list(): `while (current_token->type == CHAR) match(node, CHAR);`
P_parse_char_list_loop(t, S) ==
    IF P_current(t, S).type = "CHAR"
    THEN P_char_list_again(t, S.pos, P_match(t, P_deref(t, S), "CHAR"))
    ELSE P_deref(t, S)

\* the next test of the while loop, after a match that began at from
P_char_list_again(t, from, S) ==
    IF S.pos > from THEN P_parse_char_list_loop(t, S) ELSE P_hang(S)

P_parse_char_list(t, S) ==
    P_close(P_parse_char_list_loop(t,
                P_match(t, P_open(S, Node("Char List", <<>>)), "CHAR")))

\* the switch of parse_boolean_operation
P_boolean_operation_switch(t, S) ==
    LET type == P_current(t, S).type
    IN  IF type = "EQUALITY_OP" THEN P_match(t, P_deref(t, S), "EQUALITY_OP")
        ELSE IF type = "INEQUALITY_OP" THEN P_match(t, P_deref(t, S), "INEQUALITY_OP")
        ELSE P_report_token_mismatch(P_deref(t, S))

P_parse_boolean_operation(t, S) ==
    P_close(P_boolean_operation_switch(t, P_open(S, Node("Boolean Operation", <<>>))))

\* the switch of parse_boolean_expression
P_boolean_expression_switch(t, S) ==
    LET type == P_current(t, S).type
    IN  IF type = "OPEN_PARENTHESIS"
        THEN P_match(t,
                 P_parse_expression(t,
                     P_parse_boolean_operation(t,
                         P_parse_expression(t,
                             P_match(t, P_deref(t, S), "OPEN_PARENTHESIS")))),
                 "CLOSE_PARENTHESIS")
        ELSE IF type = "BOOL_VAL" THEN P_match(t, P_deref(t, S), "BOOL_VAL")
        ELSE P_report_token_mismatch(P_deref(t, S))

P_parse_boolean_expression(t, S) ==
    P_close(P_boolean_expression_switch(t, P_open(S, Node("Boolean Expression", <<>>))))

\* parse_string_expression(): after the opening quote
P_string_expression_rest(t, S) ==
    IF P_current(t, S).type = "QUOTE"
    THEN P_match(t, P_deref(t, S), "QUOTE")
    ELSE P_match(t, P_parse_char_list(t, P_deref(t, S)), "QUOTE")

P_parse_string_expression(t, S) ==
    P_close(P_string_expression_rest(t,
                P_match(t, P_open(S, Node("String Expression", <<>>)), "QUOTE")))

\* parse_int_expression(): after the number
P_int_expression_rest(t, S) ==
    IF P_current(t, S).type = "INT_OP"
    THEN P_parse_expression(t, P_match(t, P_deref(t, S), "INT_OP"))
    ELSE P_deref(t, S)

P_parse_int_expression(t, S) ==
    P_close(P_int_expression_rest(t,
                P_match(t, P_open(S, Node("Int Expression", <<>>)), "NUMBER")))

\* the switch of parse_expression
P_expression_switch(t, S) ==
    LET type == P_current(t, S).type
    IN  CASE type = "NUMBER" -> P_parse_int_expression(t, P_deref(t, S))
          [] type = "QUOTE" -> P_parse_string_expression(t, P_deref(t, S))
          [] type \in {"BOOL_VAL", "OPEN_PARENTHESIS"} ->
                 P_parse_boolean_expression(t, P_deref(t, S))
          [] type = "ID" -> P_parse_id(t, P_deref(t, S))
          [] OTHER -> P_report_token_mismatch(P_deref(t, S))

P_parse_expression(t, S) ==
    IF P_recurs(S, "parse_expression") THEN P_hang(S)
    ELSE P_leave(P_close(P_expression_switch(t,
             P_open(P_enter(S, "parse_expression"), Node("Expression", <<>>)))))

P_parse_if_statement(t, S) ==
    P_close(P_parse_block(t,
                P_parse_boolean_expression(t,
                    P_match(t, P_open(S, Node("If Statement", <<>>)), "IF"))))

P_parse_while_statement(t, S) ==
    P_close(P_parse_block(t,
                P_parse_boolean_expression(t,
                    P_match(t, P_open(S, Node("While Statement", <<>>)), "WHILE"))))

P_parse_var_declaration(t, S) ==
    P_close(P_parse_id(t,
                P_match(t, P_open(S, Node("Variable Declaration", <<>>)), "I_TYPE")))

P_parse_assignment_statement(t, S) ==
    P_close(P_parse_expression(t,
                P_match(t, P_parse_id(t, P_open(S, Node("Assignment Statement", <<>>))),
                        "ASSIGN_OP")))

P_parse_print_statement(t, S) ==
    P_close(P_match(t,
                P_parse_expression(t,
                    P_match(t,
                        P_match(t, P_open(S, Node("Print Statement", <<>>)), "PRINT"),
                        "OPEN_PARENTHESIS")),
                "CLOSE_PARENTHESIS"))

\* the switch of parse_statement
P_statement_switch(t, S) ==
    LET type == P_current(t, S).type
    IN  CASE type = "PRINT" -> P_parse_print_statement(t, P_deref(t, S))
          [] type = "ID" -> P_parse_assignment_statement(t, P_deref(t, S))
          [] type = "I_TYPE" -> P_parse_var_declaration(t, P_deref(t, S))
          [] type = "WHILE" -> P_parse_while_statement(t, P_deref(t, S))
          [] type = "IF" -> P_parse_if_statement(t, P_deref(t, S))
          [] type = "OPEN_BLOCK" -> P_parse_block(t, P_deref(t, S))
          [] OTHER -> P_report_token_mismatch(P_deref(t, S))

P_parse_statement(t, S) ==
    P_close(P_statement_switch(t, P_open(S, Node("Statement", <<>>))))

\* the switch of parse_statement_list
P_statement_list_switch(t, S) ==
    LET type == P_current(t, S).type
    IN  IF type \in StatementStart
        THEN P_parse_statement_list(t, P_parse_statement(t, P_deref(t, S)))
        ELSE IF type = "CLOSE_BLOCK" THEN P_deref(t, S)
        ELSE P_report_token_mismatch(P_deref(t, S))

P_parse_statement_list(t, S) ==
    IF P_recurs(S, "parse_statement_list") THEN P_hang(S)
    ELSE P_leave(P_close(P_statement_list_switch(t,
             P_open(P_enter(S, "parse_statement_list"), Node("Statement List", <<>>)))))

P_parse_block(t, S) ==
    P_close(P_match(t,
                P_parse_statement_list(t,
                    P_match(t, P_open(S, Node("Block", <<>>)), "OPEN_BLOCK")),
                "CLOSE_BLOCK"))

P_parse_program(t, S) == P_match(t, P_parse_block(t, S), "EOP")

\* parse(): what follows parse_program(cst); the parser after the call, the
\* tree built, and the optional returned
P_parse_return(S) ==
    [S |-> IF S.error_count > 0 THEN P_log(S, "ERROR") ELSE S,
     errors |-> S.error_count,
     has_value |-> S.error_count = 0,
     cst |-> S.open[1]]

P_parse(t, garbage) == P_parse_return(P_parse_program(t, NewParser(garbage)))

(***************************************************************************)
(* The grammar of the language, as a recognizer that is independent of the *)
(* parser: G_X(k, i) is the set of positions j such that the token kinds   *)
(* k[i], ..., k[j - 1] are derivable from the nonterminal X.               *)
(*                                                                         *)
(*   Program       = Block EOP                                             *)
(*   Block         = '{' StatementList '}'                                 *)
(*   StatementList = Statement StatementList | e                           *)
(*   Statement     = Print | Assignment | VarDecl | While | If | Block     *)
(*   Expression    = IntExpr | StringExpr | BoolExpr | Id                  *)
(*   IntExpr       = Number ('+' Expression)?                              *)
(*   StringExpr    = '"' Char* '"'                                         *)
(*   BoolExpr      = BoolVal | '(' Expression BoolOp Expression ')'        *)
(***************************************************************************)
G_at(k, i) == IF i >= 1 /\ i <= Len(k) THEN k[i] ELSE "none"

RECURSIVE G_Block(_, _), G_StatementList(_, _), G_Statement(_, _),
          G_Expression(_, _), G_BooleanExpr(_, _)

G_StringExpr(k, i) ==
    IF G_at(k, i) # "QUOTE" THEN {}
    ELSE {j + 1 : j \in {j \in (i + 1)..Len(k) :
                            /\ k[j] = "QUOTE"
                            /\ \A m \in (i + 1)..(j - 1) : k[m] = "CHAR"}}

G_IntExpr(k, i) ==
    IF G_at(k, i) # "NUMBER" THEN {}
    ELSE {i + 1} \cup (IF G_at(k, i + 1) = "INT_OP" THEN G_Expression(k, i + 2) ELSE {})

G_BooleanExpr(k, i) ==
    IF G_at(k, i) = "BOOL_VAL" THEN {i + 1}
    ELSE IF G_at(k, i) # "OPEN_PARENTHESIS" THEN {}
    ELSE UNION {UNION {{m + 1 : m \in {m \in G_Expression(k, j + 1) :
                                           G_at(k, m) = "CLOSE_PARENTHESIS"}}
                       : j \in {j \in G_Expression(k, i + 1) :
                                   G_at(k, j) \in {"EQUALITY_OP", "INEQUALITY_OP"}}}}

G_Expression(k, i) ==
    G_IntExpr(k, i) \cup G_StringExpr(k, i) \cup G_BooleanExpr(k, i)
        \cup (IF G_at(k, i) = "ID" THEN {i + 1} ELSE {})

G_Statement(k, i) ==
    (IF G_at(k, i) = "PRINT" /\ G_at(k, i + 1) = "OPEN_PARENTHESIS"
     THEN {j + 1 : j \in {j \in G_Expression(k, i + 2) :
                            G_at(k, j) = "CLOSE_PARENTHESIS"}}
     ELSE {})
    \cup (IF G_at(k, i) = "ID" /\ G_at(k, i + 1) = "ASSIGN_OP"
          THEN G_Expression(k, i + 2) ELSE {})
    \cup (IF G_at(k, i) = "I_TYPE" /\ G_at(k, i + 1) = "ID" THEN {i + 2} ELSE {})
    \cup (IF G_at(k, i) \in {"WHILE", "IF"}
          THEN UNION {G_Block(k, j) : j \in G_BooleanExpr(k, i + 1)} ELSE {})
    \cup G_Block(k, i)

G_StatementList(k, i) ==
    {i} \cup UNION {G_StatementList(k, j) : j \in G_Statement(k, i)}

G_Block(k, i) ==
    IF G_at(k, i) # "OPEN_BLOCK" THEN {}
    ELSE {j + 1 : j \in {j \in G_StatementList(k, i + 1) : G_at(k, j) = "CLOSE_BLOCK"}}

\* the token kinds k are derivable from Program
G_Program(k) == \E j \in G_Block(k, 1) : j = Len(k) /\ k[j] = "EOP"

KindsOf(t) == [i \in 1..Len(t) |-> t[i].type]

(***************************************************************************)
(* SymbolTable.h (the version SemanticAnalyzer.h compiles against: the     *)
(* one whose addSymbol takes the type as a string and whose findSymbol     *)
(* takes the name alone).  A scope frame is a function from names to       *)
(* Symbols; `scopes` is the std::vector of frames.  `warnings` is what     *)
(* exitScope printed: one set of warnings for each call.                   *)
(***************************************************************************)
Symbol(name, type, isInitialized, isUsed, lineNumber) ==
    [name |-> name, type |-> type, isInitialized |-> isInitialized,
     isUsed |-> isUsed, lineNumber |-> lineNumber]

NewSymbolTable == [scopes |-> <<>>, currentScopeLevel |-> -1, warnings |-> <<>>]

\* scopes.back()
back(T) == T.scopes[Len(T.scopes)]

enterScope(T) ==
    [T EXCEPT !.scopes = Append(@, <<>>), !.currentScopeLevel = @ + 1]

\* exitScope(): the frames are left as they are, only the level is lowered
exitScope(T) ==
    LET frame == back(T)
        said == {<<IF frame[n].isInitialized
                   THEN "declared and initialized but never used"
                   ELSE "declared but never used", n, frame[n].lineNumber>>
                 : n \in {n \in DOMAIN frame : ~frame[n].isUsed}}
    IN  [T EXCEPT !.warnings = Append(@, said), !.currentScopeLevel = @ - 1]

\* addSymbol(): the value returned and the table after the call
addSymbol(T, name, type, line) ==
    IF name \in DOMAIN back(T)
    THEN [ok |-> FALSE, T |-> T]
    ELSE [ok |-> TRUE,
          T |-> [T EXCEPT !.scopes[Len(T.scopes)] =
                              @ @@ (name :> Symbol(name, type, FALSE, FALSE, line))]]

\* findSymbol(): the frames scopes[i], i = currentScopeLevel .. 0, that hold the name
FramesWith(T, name) ==
    {i \in 0..T.currentScopeLevel : name \in DOMAIN T.scopes[i + 1]}

Max(S) == CHOOSE x \in S : \A y \in S : y <= x

\* findSymbol(): found or nullptr, the frame of the symbol found, and the
\* table after the call (the symbol is marked used)
findSymbol(T, name) ==
    IF FramesWith(T, name) = {}
    THEN [found |-> FALSE, frame |-> -1, T |-> T]
    ELSE LET i == Max(FramesWith(T, name))
         IN  [found |-> TRUE, frame |-> i,
              T |-> [T EXCEPT !.scopes[i + 1][name].isUsed = TRUE]]

markInitialized(T, name) ==
    IF FramesWith(T, name) = {} THEN T
    ELSE [T EXCEPT !.scopes[Max(FramesWith(T, name)) + 1][name].isInitialized = TRUE]

\* node_to_data_type(): the DataType a type keyword names
node_to_data_type(value) ==
    CASE value = KW_int -> "Int"
      [] value = KW_string -> "String"
      [] value = KW_boolean -> "Boolean"
      [] OTHER -> "Unknown"

(***************************************************************************)
(* The AST node of SemanticAnalyzer.h: its NodeType, value, line and       *)
(* children.  A leaf made from a token takes the token's literal and line  *)
(* and the node kind of the token: identifier, number literal (an Int      *)
(* expression) or boolean literal (a Boolean expression).                  *)
(***************************************************************************)
ASTNode(type, value, line) ==
    [type |-> type, value |-> value, line |-> line, children |-> <<>>]

NodeTypeOfToken(tok) ==
    CASE tok.type = "ID" -> "ID"
      [] tok.type = "NUMBER" -> "INT_EXPRESSION"
      [] tok.type = "BOOL_VAL" -> "BOOLEAN_EXPRESSION"
      [] OTHER -> "UNKNOWN"

\* parent.addChild(NodeType::UNKNOWN, token)
TokenLeaf(tok) == ASTNode(NodeTypeOfToken(tok), tok.value, tok.line)

(***************************************************************************)
(* SemanticAnalyzer.h: the second descent over the tokens, which builds    *)
(* the AST.  It works on the analyzer A: its cursor pos, error_count, the  *)
(* undefined-read record and the nodes `open`, as for the Parser.          *)
(***************************************************************************)
\* match_and_add(node, token) for the node on top of `open`
A_match_and_add(t, A, token) ==
    IF P_current(t, A).type = token
    THEN P_advance(t, P_add(P_deref(t, A), TokenLeaf(P_current(t, A))))
    ELSE P_report_token_mismatch(P_deref(t, A))

\* check(token)
A_check(t, A, token) ==
    IF P_current(t, A).type = token THEN P_advance(t, P_deref(t, A)) ELSE P_deref(t, A)

RECURSIVE A_parse_block(_, _), A_parse_statement_list(_, _),
          A_parse_statement(_, _), A_parse_expression(_, _),
          A_parse_boolean_expression(_, _), A_parse_char_list_loop(_, _, _)

A_parse_id(t, A) == A_match_and_add(t, A, "ID")

\* parse_char_list(): the while loop gathers `chars`, then the node is added
A_parse_char_list_loop(t, A, chars) ==
    IF P_current(t, A).type = "CHAR"
    THEN A_parse_char_list_loop(t, P_advance(t, P_deref(t, A)),
                                chars \o P_current(t, A).value)
    ELSE P_add(P_deref(t, A), ASTNode("CHAR_LIST", chars, 0))

A_parse_char_list(t, A) == A_parse_char_list_loop(t, A, <<>>)

\* the switch of parse_boolean_operation
A_boolean_operation_switch(t, A) ==
    LET type == P_current(t, A).type
    IN  IF type = "EQUALITY_OP" THEN A_match_and_add(t, P_deref(t, A), "EQUALITY_OP")
        ELSE IF type = "INEQUALITY_OP"
             THEN A_match_and_add(t, P_deref(t, A), "INEQUALITY_OP")
        ELSE P_report_token_mismatch(P_deref(t, A))

A_parse_boolean_operation(t, A) ==
    P_close(A_boolean_operation_switch(t, P_open(A, ASTNode("BOOLEAN_OPERATION", <<>>, 0))))

A_parse_boolean_expression(t, A) ==
    LET type == P_current(t, A).type
    IN  IF type = "OPEN_PARENTHESIS"
        THEN A_check(t,
                 A_parse_expression(t,
                     A_parse_boolean_operation(t,
                         A_parse_expression(t,
                             A_check(t, P_deref(t, A), "OPEN_PARENTHESIS")))),
                 "CLOSE_PARENTHESIS")
        ELSE IF type = "BOOL_VAL" THEN A_match_and_add(t, P_deref(t, A), "BOOL_VAL")
        ELSE P_report_token_mismatch(P_deref(t, A))

\* parse_string_expression(): after the opening quote
A_string_expression_rest(t, A) ==
    IF P_current(t, A).type = "QUOTE"
    THEN A_check(t, P_deref(t, A), "QUOTE")
    ELSE A_check(t, A_parse_char_list(t, P_deref(t, A)), "QUOTE")

A_parse_string_expression(t, A) ==
    A_string_expression_rest(t, A_check(t, A, "QUOTE"))

\* parse_int_expression(): after the number
A_int_expression_rest(t, A) ==
    IF P_current(t, A).type = "INT_OP"
    THEN A_parse_expression(t, A_match_and_add(t, P_deref(t, A), "INT_OP"))
    ELSE P_deref(t, A)

A_parse_int_expression(t, A) ==
    A_int_expression_rest(t, A_match_and_add(t, A, "NUMBER"))

A_parse_expression(t, A) ==
    LET type == P_current(t, A).type
    IN  CASE type = "NUMBER" -> A_parse_int_expression(t, P_deref(t, A))
          [] type = "QUOTE" -> A_parse_string_expression(t, P_deref(t, A))
          [] type \in {"BOOL_VAL", "OPEN_PARENTHESIS"} ->
                 A_parse_boolean_expression(t, P_deref(t, A))
          [] type = "ID" -> A_parse_id(t, P_deref(t, A))
          [] OTHER -> P_report_token_mismatch(P_deref(t, A))

A_parse_if_statement(t, A) ==
    P_close(A_parse_block(t,
                A_parse_boolean_expression(t,
                    A_check(t, P_open(A, ASTNode("IF_STATEMENT", <<>>, 0)), "IF"))))

A_parse_while_statement(t, A) ==
    P_close(A_parse_block(t,
                A_parse_boolean_expression(t,
                    A_check(t, P_open(A, ASTNode("WHILE_STATEMENT", <<>>, 0)), "WHILE"))))

A_parse_var_declaration(t, A) ==
    P_close(A_parse_id(t,
                A_match_and_add(t, P_open(A, ASTNode("VARIABLE_DECLARATION", <<>>, 0)),
                                "I_TYPE")))

A_parse_assignment_statement(t, A) ==
    P_close(A_parse_expression(t,
                A_check(t,
                    A_parse_id(t, P_open(A, ASTNode("ASSIGNMENT_STATEMENT", <<>>, 0))),
                    "ASSIGN_OP")))

A_parse_print_statement(t, A) ==
    P_close(A_check(t,
                A_parse_expression(t,
                    A_check(t,
                        A_check(t, P_open(A, ASTNode("PRINT_STATEMENT", <<>>, 0)), "PRINT"),
                        "OPEN_PARENTHESIS")),
                "CLOSE_PARENTHESIS"))

A_parse_statement(t, A) ==
    LET type == P_current(t, A).type
    IN  CASE type = "PRINT" -> A_parse_print_statement(t, P_deref(t, A))
          [] type = "ID" -> A_parse_assignment_statement(t, P_deref(t, A))
          [] type = "I_TYPE" -> A_parse_var_declaration(t, P_deref(t, A))
          [] type = "WHILE" -> A_parse_while_statement(t, P_deref(t, A))
          [] type = "IF" -> A_parse_if_statement(t, P_deref(t, A))
          [] type = "OPEN_BLOCK" -> A_parse_block(t, P_deref(t, A))
          [] OTHER -> P_report_token_mismatch(P_deref(t, A))

A_parse_statement_list(t, A) ==
    LET type == P_current(t, A).type
    IN  IF type \in StatementStart
        THEN A_parse_statement_list(t, A_parse_statement(t, P_deref(t, A)))
        ELSE IF type = "CLOSE_BLOCK" THEN P_deref(t, A)
        ELSE P_report_token_mismatch(P_deref(t, A))

A_parse_block(t, A) ==
    P_close(A_check(t,
                A_parse_statement_list(t,
                    A_check(t, P_open(A, ASTNode("BLOCK", <<>>, 0)), "OPEN_BLOCK")),
                "CLOSE_BLOCK"))

A_parse_program(t, A) == A_check(t, A_parse_block(t, A), "EOP")

(***************************************************************************)
(* SemanticAnalyzer.h: the SemanticAnalyzer object and analyze().          *)
(* The recursion of analyze_node is unfolded into `agenda`, the calls      *)
(* still to be made, innermost first: one step is one call of              *)
(* analyze_node, or the exitScope() that ends a BLOCK.  `counted` names    *)
(* the statement that made each increment of error_count during the walk,  *)
(* `lookups` the findSymbol calls of the latest step, `open` the nodes of  *)
(* the AST under construction and `ast` the AST built.  A read of a child  *)
(* that a node does not have is undefined behaviour: `ub` records it and   *)
(* the read yields `garbage_node`.                                         *)
(***************************************************************************)
NewSemanticAnalyzer(items, garbage, garbage_node) ==
    [tokens |-> items, pos |-> 1, error_count |-> 0, oob |-> FALSE,
     garbage |-> garbage, symbol_table |-> NewSymbolTable,
     phase |-> "constructed", agenda |-> <<>>, open |-> <<>>,
     ast |-> ASTNode("BLOCK", <<>>, 0),
     counted |-> <<>>, lookups |-> <<>>, ub |-> FALSE, garbage_node |-> garbage_node,
     calls |-> 0, has_value |-> FALSE,
     previous |-> [error_count |-> 0, scopes |-> <<>>, warnings |-> <<>>]]

CallAnalyzeNode(node) == [op |-> "analyze_node", node |-> node]

CallExitScope == [op |-> "exitScope", node |-> ASTNode("UNKNOWN", <<>>, 0)]

CallsFor(children) == [i \in 1..Len(children) |-> CallAnalyzeNode(children[i])]

\* node.get_children()[i - 1]
ChildAt(A, node, i) ==
    IF i <= Len(node.children) THEN node.children[i] ELSE A.garbage_node

\* the analyzer after that read
ReadChild(A, node, i) ==
    IF i <= Len(node.children) THEN A ELSE [A EXCEPT !.ub = TRUE]

\* ++error_count in the walk
Count(A, why, at) ==
    [A EXCEPT !.error_count = @ + 1, !.counted = Append(@, <<why, at>>)]

\* symbol_table.findSymbol(name) for the identifier leaf `id`
Lookup(A, id) ==
    LET r == findSymbol(A.symbol_table, id.value)
    IN  [found |-> r.found,
         A |-> [A EXCEPT !.symbol_table = r.T,
                         !.lookups = Append(@,
                             [name |-> id.value, at |-> id.line, found |-> r.found,
                              decl |-> IF r.found
                                       THEN r.T.scopes[r.frame + 1][id.value].lineNumber
                                       ELSE 0])]]

\* evaluate_expression(): the DataType returned and the analyzer after the call
evaluate_expression(A, node) ==
    CASE node.type = "INT_EXPRESSION" -> [type |-> "Int", A |-> A]
      [] node.type = "CHAR_LIST" -> [type |-> "String", A |-> A]
      [] node.type = "BOOLEAN_EXPRESSION" -> [type |-> "Boolean", A |-> A]
      [] node.type = "ID" ->
             LET r == Lookup(A, node)
             IN  IF ~r.found
                 THEN [type |-> "Unknown", A |-> Count(r.A, "undeclared", node.line)]
                 ELSE [type |-> "Unknown",
                       A |-> Count(r.A, "invalid expression", node.line)]
      [] OTHER -> [type |-> "Unknown", A |-> Count(A, "invalid expression", node.line)]

\* analyze_node(), case BLOCK, up to the calls for the children
analyze_block(A, node) ==
    [A EXCEPT !.symbol_table = enterScope(@),
              !.agenda = CallsFor(node.children) \o <<CallExitScope>> \o @]

\* analyze_node(), case BLOCK, after the last child
analyze_exit_scope(A) == [A EXCEPT !.symbol_table = exitScope(@)]

analyze_variable_declaration(A, node) ==
    LET id_node == ChildAt(A, node, 1)
        name == ChildAt(A, node, 2)
        A1 == ReadChild(ReadChild(A, node, 1), node, 2)
        r == addSymbol(A.symbol_table, name.value, id_node.value, id_node.line)
        A2 == [A1 EXCEPT !.symbol_table = r.T]
    IN  IF ~r.ok THEN Count(A2, "redeclaration", id_node.line) ELSE A2

analyze_assignment_statement(A, node) ==
    LET id_node == ChildAt(A, node, 1)
        expr_node == ChildAt(A, node, 2)
        A1 == ReadChild(ReadChild(A, node, 1), node, 2)
        r == Lookup(A1, id_node)
    IN  IF ~r.found
        THEN Count(r.A, "undeclared", id_node.line)
        ELSE evaluate_expression(r.A, expr_node).A

analyze_print_statement(A, node) ==
    evaluate_expression(ReadChild(A, node, 1), ChildAt(A, node, 1)).A

analyze_if_while_statement(A, node) ==
    LET r == evaluate_expression(ReadChild(A, node, 1), ChildAt(A, node, 1))
        A1 == IF r.type # "Boolean" THEN Count(r.A, "non-boolean", node.line) ELSE r.A
    IN  [ReadChild(A1, node, 2) EXCEPT
             !.agenda = <<CallAnalyzeNode(ChildAt(A, node, 2))>> \o @]

analyze_default(A, node) == [A EXCEPT !.agenda = CallsFor(node.children) \o @]

\* one call of analyze_node, the callee's own part
analyze_node(A, node) ==
    CASE node.type = "BLOCK" -> analyze_block(A, node)
      [] node.type = "VARIABLE_DECLARATION" -> analyze_variable_declaration(A, node)
      [] node.type = "ASSIGNMENT_STATEMENT" -> analyze_assignment_statement(A, node)
      [] node.type = "PRINT_STATEMENT" -> analyze_print_statement(A, node)
      [] node.type \in {"IF_STATEMENT", "WHILE_STATEMENT"} ->
             analyze_if_while_statement(A, node)
      [] OTHER -> analyze_default(A, node)

\* analyze(): error_count = 0; AST ast;  `calls` counts the calls of analyze()
\* on this object and `previous` keeps what the call before this one left
analyze_reset(A) ==
    [A EXCEPT !.error_count = 0, !.counted = <<>>, !.lookups = <<>>,
              !.open = <<ASTNode("BLOCK", <<>>, 0)>>,
              !.calls = @ + 1, !.has_value = FALSE,
              !.previous = [error_count |-> A.error_count,
                            scopes |-> A.symbol_table.scopes,
                            warnings |-> A.symbol_table.warnings]]

\* analyze(): ast.print(); and the first call of analyze_node is due
analyze_built(A) ==
    [A EXCEPT !.ast = A.open[1], !.open = <<>>, !.phase = "analyzing",
              !.agenda = <<CallAnalyzeNode(A.open[1].children[1])>>]

\* analyze(), from its entry to the first call of analyze_node
analyze_begin(A) == analyze_built(A_parse_program(A.tokens, analyze_reset(A)))

\* analyze(), after the walk: the table is displayed and the AST returned
analyze_end(A) == [A EXCEPT !.phase = "returned", !.lookups = <<>>, !.has_value = TRUE]

\* the head of the agenda is taken and carried out
analyze_step(A) ==
    LET call == Head(A.agenda)
        A1 == [A EXCEPT !.agenda = Tail(@), !.lookups = <<>>]
    IN  IF call.op = "exitScope" THEN analyze_exit_scope(A1)
        ELSE analyze_node(A1, call.node)

RECURSIVE analyze_walk(_)
\* the whole walk
analyze_walk(A) == IF A.agenda = <<>> THEN A ELSE analyze_walk(analyze_step(A))

\* analyze() as one call
analyze(A) == analyze_end(analyze_walk(analyze_begin(A)))

(***************************************************************************)
(* Programs given to the analyzer: token lists as the Lexer produces them  *)
(* for syntactically valid programs.  Every token stands on a line of its  *)
(* own, so that the line of a declaration identifies it.                   *)
(***************************************************************************)
MaxItems == 3

Tk(type, value) == Token(type, value, 0)

OnLines(t) == [i \in 1..Len(t) |-> [t[i] EXCEPT !.line = i]]

tkA == Tk("ID", <<"a">>)
tkB == Tk("ID", <<"b">>)
tkInt == Tk("I_TYPE", KW_int)
tkString == Tk("I_TYPE", KW_string)
tkAssign == Tk("ASSIGN_OP", <<"=">>)
tkFive == Tk("NUMBER", <<"5">>)
tkQuote == Tk("QUOTE", <<"\"">>)
tkOpenBlock == Tk("OPEN_BLOCK", <<"{">>)
tkCloseBlock == Tk("CLOSE_BLOCK", <<"}">>)
tkOpenParen == Tk("OPEN_PARENTHESIS", <<"(">>)
tkCloseParen == Tk("CLOSE_PARENTHESIS", <<")">>)
tkEOP == Tk("EOP", <<EOP>>)

\* Statements without a block of their own
SimpleStatements ==
    { <<tkInt, tkA>>, <<tkString, tkA>>, <<tkInt, tkB>>,
      <<tkA, tkAssign, tkFive>>,
      <<tkA, tkAssign, tkQuote, Tk("CHAR", <<"x">>), tkQuote>>,
      <<tkA, tkAssign, tkB>>,
      <<tkA, tkAssign, tkFive, Tk("INT_OP", <<"+">>), tkB>>,
      <<tkB, tkAssign, Tk("BOOL_VAL", KW_true)>>,
      <<Tk("PRINT", KW_print), tkOpenParen, tkA, tkCloseParen>>,
      <<Tk("PRINT", KW_print), tkOpenParen, tkB, tkCloseParen>> }

\* What stands before the block of a block statement, an if or a while
BlockHeads ==
    { <<>>,
      <<Tk("IF", KW_if), Tk("BOOL_VAL", KW_true)>>,
      <<Tk("IF", KW_if), tkOpenParen, tkA, Tk("EQUALITY_OP", <<"=", "=">>), tkFive,
        tkCloseParen>>,
      <<Tk("WHILE", KW_while), tkOpenParen, tkB, Tk("INEQUALITY_OP", <<"!", "=">>), tkA,
        tkCloseParen>> }

\* The statement lists of exactly n statements, nested ones counted
StatementLists[n \in 0..MaxItems] ==
    IF n = 0 THEN {<<>>}
    ELSE {s \o r : s \in SimpleStatements, r \in StatementLists[n - 1]}
         \cup UNION {{h \o <<tkOpenBlock>> \o b \o <<tkCloseBlock>> \o r :
                         h \in BlockHeads, b \in StatementLists[j],
                         r \in StatementLists[n - 1 - j]} : j \in 0..(n - 1)}

\* Programs of the language reference that exercise the scopes
SamplePrograms ==
    { <<tkOpenBlock, tkInt, tkA, tkOpenBlock, tkString, tkA,
        Tk("PRINT", KW_print), tkOpenParen, tkA, tkCloseParen, tkCloseBlock,
        Tk("PRINT", KW_print), tkOpenParen, tkA, tkCloseParen, tkCloseBlock, tkEOP>>,
      <<tkOpenBlock, tkOpenBlock, tkInt, tkA, tkCloseBlock, tkOpenBlock,
        Tk("PRINT", KW_print), tkOpenParen, tkA, tkCloseParen, tkCloseBlock,
        tkCloseBlock, tkEOP>>,
      <<tkOpenBlock, tkInt, tkA, tkOpenBlock, tkInt, tkB, tkCloseBlock, tkInt, tkA,
        tkCloseBlock, tkEOP>> }

\* The programs of at most n statements
Programs(n) ==
    {<<tkOpenBlock>> \o l \o <<tkCloseBlock, tkEOP>> :
        l \in UNION {StatementLists[k] : k \in 0..n}}

AnalyzerPrograms(n) == {OnLines(p) : p \in Programs(n) \cup SamplePrograms}

(***************************************************************************)
(* Values a read past the end of a vector may yield.                       *)
(***************************************************************************)
GarbageTokens == {tkEOP, tkCloseBlock, Tk("UNKNOWN", <<>>)}

GarbageNodes == {ASTNode("UNKNOWN", <<>>, 0), ASTNode("INT_EXPRESSION", <<"5">>, 0)}

\* std::optional: std::nullopt and a held value
nullopt == [has_value |-> FALSE, value |-> <<>>]

some(v) == [has_value |-> TRUE, value |-> v]

(***************************************************************************)
(* Idle values of the variables a specification does not use.              *)
(***************************************************************************)
IdleAnalyzer ==
    [NewSemanticAnalyzer(<<>>, tkEOP, ASTNode("UNKNOWN", <<>>, 0)) EXCEPT !.phase = "idle"]

IdleResult ==
    [done |-> FALSE, errors |-> 0, has_value |-> FALSE, oob |-> FALSE, cst |-> <<>>,
     descents |-> 0, stuck |-> FALSE]

DriverIdle ==
    /\ source = <<>> /\ lexer = NewLexer /\ index = 0 /\ pc = "idle"
    /\ tokens_opt = nullopt /\ cst_opt = nullopt /\ runs = <<>>

IdleLexers == [phase |-> "idle"]

IdleBuffer == [phase |-> "idle"]

(***************************************************************************)
(* main.cpp: the driver, for one file.  `runs` keeps, for each program of  *)
(* the file, which stages ran and how they ended.                          *)
(***************************************************************************)
MaxLen == 4

SourceChars == {"{", "}", EOP, "@", SPACE}

RECURSIVE Strings(_)
Strings(n) ==
    IF n = 0 THEN {<<>>}
    ELSE Strings(n - 1) \cup {Append(w, c) : w \in Strings(n - 1), c \in SourceChars}

\* Files with comments, strings, statements and a program without its end marker
SampleSources ==
    { <<"/", "*", "*", "/", "*", "$", "{", "}", "$">>,
      <<"/", "*", "$", "*", "/", "{", "}", "$">>,
      <<"{", "}", "$", "/", "*">>,
      <<"{", "}", "$", "\"", "a">>,
      <<"@", "$", "{", "i", "n", "t", " ", "a", "}", "$", "{", "}">>,
      <<"{", "a", "=", "\"", "A", "\"", "}", "$", "{", "}", "$">>,
      <<"{", "i", "n", "t", " ", "a", "\n", "a", "=", "5", "\n", "p", "r", "i", "n", "t",
        "(", "a", ")", "}", "$">>,
      <<"{", "p", "r", "i", "n", "t", "(", "a", ")", "$", "{", "}", "$">>,
      <<"@", "$", "}", "$", "{", "}", "$">> }

Sources == Strings(MaxLen) \cup SampleSources

\* A guard of main() that lets every result pass
has_value_unchecked(o) == TRUE

\* The guards of main(): tokens.has_value(), cst.has_value()
has_value(o) == o.has_value

Run(from, to, lexed) ==
    [from |-> from, to |-> to, lexed |-> lexed, parsed |-> FALSE, parse_errors |-> 0,
     analyzed |-> FALSE, analysis_errors |-> 0, read_past_end |-> FALSE]

Init ==
    /\ source \in Sources
    /\ lexer = NewLexer
    /\ index = 0
    /\ pc = "loop"
    /\ tokens_opt = nullopt
    /\ cst_opt = nullopt
    /\ runs = <<>>
    /\ p_tokens = <<>>
    /\ p_result = IdleResult
    /\ az = IdleAnalyzer
    /\ lx = IdleLexers
    /\ cb = IdleBuffer

\* while (!lexer.isEOF()) { ++index; tokens = lexer.scan();
LexProgram ==
    /\ pc = "loop"
    /\ ~isEOF(source, lexer)
    /\ \E r \in {scan(source, lexer)} :
           /\ lexer' = r.L
           /\ tokens_opt' = IF r.has_value THEN some(r.value) ELSE nullopt
           /\ runs' = Append(runs, Run(lexer.pos, r.L.pos, r.has_value))
    /\ index' = index + 1
    /\ pc' = "scanned"
    /\ UNCHANGED <<lx, cb, source, cst_opt, p_tokens, p_result, az>>

\* if (!tokens.has_value()) { ...; continue; }
SkipLexFailure ==
    /\ pc = "scanned"
    /\ ~has_value(tokens_opt)
    /\ pc' = "loop"
    /\ UNCHANGED <<lx, cb, source, lexer, index, tokens_opt, cst_opt, runs, p_tokens, p_result, az>>

\* Parser parser{tokens.value()}; cst = parser.parse();
ParseProgram ==
    /\ pc = "scanned"
    /\ has_value(tokens_opt)
    /\ \E garbage \in GarbageTokens :
         \E r \in {P_parse(tokens_opt.value, garbage)} :
             /\ cst_opt' = IF r.has_value THEN some(r.cst) ELSE nullopt
             /\ runs' = [runs EXCEPT ![Len(runs)].parsed = TRUE,
                                     ![Len(runs)].parse_errors = r.errors,
                                     ![Len(runs)].read_past_end = r.S.oob]
             /\ pc' \in IF r.S.oob THEN {"parsed", "crashed"} ELSE {"parsed"}
    /\ UNCHANGED <<lx, cb, source, lexer, index, tokens_opt, p_tokens, p_result, az>>

\* if (!cst.has_value()) { ...; continue; }
SkipParseFailure ==
    /\ pc = "parsed"
    /\ ~has_value(cst_opt)
    /\ pc' = "loop"
    /\ UNCHANGED <<lx, cb, source, lexer, index, tokens_opt, cst_opt, runs, p_tokens, p_result, az>>

\* SemanticAnalyzer analyzer{tokens.value()}; ast = analyzer.analyze(); ... }
AnalyzeProgram ==
    /\ pc = "parsed"
    /\ has_value(cst_opt)
    /\ \E garbage \in GarbageTokens, garbage_node \in GarbageNodes :
         \E A \in {analyze(NewSemanticAnalyzer(tokens_opt.value, garbage, garbage_node))} :
             /\ az' = A
             /\ pc' \in IF A.oob \/ A.ub THEN {"loop", "crashed"} ELSE {"loop"}
             /\ runs' = [runs EXCEPT ![Len(runs)].analyzed = TRUE,
                                     ![Len(runs)].analysis_errors = A.error_count]
    /\ UNCHANGED <<lx, cb, source, lexer, index, tokens_opt, cst_opt, p_tokens, p_result>>

\* the loop ends: return 0
Exit ==
    /\ pc = "loop"
    /\ isEOF(source, lexer)
    /\ pc' = "done"
    /\ UNCHANGED <<lx, cb, source, lexer, index, tokens_opt, cst_opt, runs, p_tokens, p_result, az>>

Next ==
    \/ LexProgram
    \/ SkipLexFailure
    \/ ParseProgram
    \/ SkipParseFailure
    \/ AnalyzeProgram
    \/ Exit

Spec == Init /\ [][Next]_vars

\* the positions of main(), and those it does not leave
Positions == {"loop", "scanned", "parsed", "crashed", "done"}

Finished == pc \in {"done", "crashed"}

\* main() executes its next statement
Proceeds == ~Finished /\ pc' \in Positions /\ pc' # pc

\* main() runs on until it returns or crashes
SpecTerminating == Init /\ [][Next]_vars /\ WF_pc(Proceeds)

(***************************************************************************)
(* Parser::parse() on its own: token vectors that end in a single EOP, as  *)
(* the Lexer returns them for every program but an unterminated last one.  *)
(***************************************************************************)
MaxTokens == 3

\* A token of each kind but EOP, with a literal of that kind
TokenSamples ==
    { tkOpenBlock, tkCloseBlock, Tk("PRINT", KW_print), tkAssign, Tk("WHILE", KW_while),
      Tk("IF", KW_if), tkOpenParen, tkCloseParen, tkInt, tkA, tkFive, tkQuote,
      Tk("CHAR", <<"x">>), Tk("BOOL_VAL", KW_true), Tk("EQUALITY_OP", <<"=", "=">>),
      Tk("INEQUALITY_OP", <<"!", "=">>), Tk("INT_OP", <<"+">>), Tk("UNKNOWN", <<>>) }

RECURSIVE TokenLists(_)
TokenLists(n) ==
    IF n = 0 THEN {<<>>}
    ELSE TokenLists(n - 1) \cup {Append(w, x) : w \in TokenLists(n - 1), x \in TokenSamples}

\* Valid programs that use every production of the grammar
ParserTemplates ==
    { <<tkOpenBlock, tkInt, tkA, tkA, tkAssign, tkFive, Tk("INT_OP", <<"+">>), tkA,
        Tk("PRINT", KW_print), tkOpenParen, tkQuote, Tk("CHAR", <<"x">>), tkQuote,
        tkCloseParen, tkCloseBlock>>,
      <<tkOpenBlock, Tk("WHILE", KW_while), tkOpenParen, tkA,
        Tk("EQUALITY_OP", <<"=", "=">>), Tk("BOOL_VAL", KW_true), tkCloseParen,
        tkOpenBlock, Tk("IF", KW_if), Tk("BOOL_VAL", KW_true), tkOpenBlock, tkCloseBlock,
        tkCloseBlock, tkString, tkB, tkB, tkAssign, tkQuote, tkQuote, tkCloseBlock>>,
      <<tkOpenBlock, Tk("IF", KW_if), tkOpenParen, tkQuote, Tk("CHAR", <<"x">>),
        Tk("CHAR", <<"x">>), tkQuote, Tk("INEQUALITY_OP", <<"!", "=">>), tkFive,
        tkCloseParen, tkOpenBlock, Tk("PRINT", KW_print), tkOpenParen, tkOpenParen, tkA,
        Tk("EQUALITY_OP", <<"=", "=">>), tkB, tkCloseParen, tkCloseParen, tkCloseBlock,
        tkCloseBlock>> }

\* A template, and the template with one token removed, replaced or inserted
Edits(t) ==
    {t}
    \cup {SubSeq(t, 1, i - 1) \o SubSeq(t, i + 1, Len(t)) : i \in 1..Len(t)}
    \cup {[t EXCEPT ![i] = x] : i \in 1..Len(t), x \in TokenSamples}
    \cup {SubSeq(t, 1, i) \o <<x>> \o SubSeq(t, i + 1, Len(t)) :
             i \in 0..Len(t), x \in TokenSamples}

\* Token lists of at most n tokens, the templates and what one edit makes of
\* them, and the valid programs of fewer than MaxItems statements
ParserInputs(n) ==
    {OnLines(Append(w, tkEOP)) :
        w \in TokenLists(n) \cup UNION {Edits(t) : t \in ParserTemplates}}
    \cup {OnLines(p) : p \in Programs(MaxItems - 1)}

InitParser ==
    /\ p_tokens \in ParserInputs(MaxTokens)
    /\ p_result = IdleResult
    /\ DriverIdle
    /\ az = IdleAnalyzer
    /\ lx = IdleLexers
    /\ cb = IdleBuffer

\* Parser parser{p_tokens}; parser.parse();
Parse ==
    /\ ~p_result.done
    /\ \E garbage \in GarbageTokens :
         \E r \in {P_parse(p_tokens, garbage)} :
             p_result' = [done |-> TRUE, errors |-> r.errors, has_value |-> r.has_value,
                          oob |-> r.S.oob, cst |-> r.cst,
                          descents |-> r.S.descents, stuck |-> r.S.stuck]
    /\ UNCHANGED <<lx, cb, source, lexer, index, pc, tokens_opt, cst_opt, runs, p_tokens, az>>

NextParser == Parse

SpecParser == InitParser /\ [][NextParser]_vars

(***************************************************************************)
(* SemanticAnalyzer::analyze() on its own, one call of analyze_node at a   *)
(* time.                                                                   *)
(***************************************************************************)
\* The calls of analyze() made on one analyzer
MaxCalls == 2

InitAnalyzer ==
    /\ az \in {NewSemanticAnalyzer(p, tkEOP, ASTNode("UNKNOWN", <<>>, 0)) :
                  p \in AnalyzerPrograms(MaxItems)}
    /\ DriverIdle
    /\ p_tokens = <<>>
    /\ p_result = IdleResult
    /\ lx = IdleLexers
    /\ cb = IdleBuffer

\* the call of analyze_node that is due, if it is one for a node of these types
Due(types) ==
    /\ az.phase = "analyzing"
    /\ az.agenda # <<>>
    /\ Head(az.agenda).op = "analyze_node"
    /\ Head(az.agenda).node.type \in types

Statements ==
    {"BLOCK", "VARIABLE_DECLARATION", "ASSIGNMENT_STATEMENT", "PRINT_STATEMENT",
     "IF_STATEMENT", "WHILE_STATEMENT"}

Step == az' = analyze_step(az) /\ UNCHANGED <<lx, cb, source, lexer, index, pc, tokens_opt,
                                                cst_opt, runs, p_tokens, p_result>>

AnalyzeBegin ==
    /\ az.phase = "constructed"
    /\ az' = analyze_begin(az)
    /\ UNCHANGED <<lx, cb, source, lexer, index, pc, tokens_opt, cst_opt, runs, p_tokens, p_result>>

AnalyzeBlock == Due({"BLOCK"}) /\ Step

AnalyzeExitScope ==
    /\ az.phase = "analyzing"
    /\ az.agenda # <<>>
    /\ Head(az.agenda).op = "exitScope"
    /\ Step

AnalyzeVariableDeclaration == Due({"VARIABLE_DECLARATION"}) /\ Step

AnalyzeAssignment == Due({"ASSIGNMENT_STATEMENT"}) /\ Step

AnalyzePrint == Due({"PRINT_STATEMENT"}) /\ Step

AnalyzeIfWhile == Due({"IF_STATEMENT", "WHILE_STATEMENT"}) /\ Step

AnalyzeDefault ==
    /\ az.phase = "analyzing"
    /\ az.agenda # <<>>
    /\ Head(az.agenda).op = "analyze_node"
    /\ Head(az.agenda).node.type \notin Statements
    /\ Step

AnalyzeEnd ==
    /\ az.phase = "analyzing"
    /\ az.agenda = <<>>
    /\ az' = analyze_end(az)
    /\ UNCHANGED <<lx, cb, source, lexer, index, pc, tokens_opt, cst_opt, runs, p_tokens, p_result>>

\* analyzer.analyze() is called again on the same object: the cursor
\* current_token stands where the call before left it, at tokens.end(), and
\* what is read there is any token
AnalyzeAgain ==
    /\ az.phase = "returned"
    /\ az.calls < MaxCalls
    /\ \E garbage \in GarbageTokens : az' = analyze_begin([az EXCEPT !.garbage = garbage])
    /\ UNCHANGED <<lx, cb, source, lexer, index, pc, tokens_opt, cst_opt, runs, p_tokens,
                   p_result>>

NextAnalyzer ==
    \/ AnalyzeBegin
    \/ AnalyzeBlock
    \/ AnalyzeExitScope
    \/ AnalyzeVariableDeclaration
    \/ AnalyzeAssignment
    \/ AnalyzePrint
    \/ AnalyzeIfWhile
    \/ AnalyzeDefault
    \/ AnalyzeEnd
    \/ AnalyzeAgain

SpecAnalyzer == InitAnalyzer /\ [][NextAnalyzer]_vars

(***************************************************************************)
(* The code buffer (CodeGen.h, class CodeBuffer)                           *)
(***************************************************************************)
\* std::vector<uint8_t> code(256, 0): the size of the memory image
MemorySize == 256

\* the values of a uint8_t
Bytes == 0..(MemorySize - 1)

\* the conversion of an int to uint8_t
uint8(n) == n % MemorySize

\* the char of a string of the program as the byte the buffer stores
byte_of(c) ==
    CASE c = "a" -> 97
      [] c = "b" -> 98
      [] c = " " -> 32
      [] OTHER -> 63

\* the temp addresses of the symbols, 16 bits each: 0x5430, 0x5431, 0x5432
TempAddresses == {21552, 21553, 21554}

\* CodeBuffer(): the members and their initializers; emitted and allocated
\* count the bytes stored by emit and by add_string_variable
NewCodeBuffer ==
    [phase |-> "emitting",
     code |-> [i \in Bytes |-> 0],
     position |-> 0,
     heap |-> 255,
     temp_addresses |-> [address \in TempAddresses |-> <<>>],
     fatal |-> FALSE,
     emitted |-> 0,
     allocated |-> 0,
     returned |-> 0,
     ops |-> 0]

\* emit(byte)
emit(B, byte) ==
    IF B.fatal THEN B
    ELSE IF B.position >= MemorySize THEN [B EXCEPT !.fatal = TRUE]
    ELSE [B EXCEPT !.code[B.position] = byte,
                   !.position = uint8(@ + 1),
                   !.emitted = @ + 1]

\* emit(op, operand)
emit_operand(B, op, operand) == emit(emit(B, op), operand)

\* temp_addresses[address].push_back(position)
push_back_position(B, address) ==
    IF B.fatal THEN B
    ELSE [B EXCEPT !.temp_addresses[address] = Append(@, B.position)]

\* emit_with_temp_address(op, address)
emit_with_temp_address(B, op, address) ==
    emit(emit(push_back_position(emit(B, op), address), address % 256),
         (address \div 256) % 256)

\* code[heap--] = byte
store_down(B, byte) ==
    [B EXCEPT !.code[B.heap] = byte,
              !.heap = uint8(@ + MemorySize - 1),
              !.allocated = @ + 1]

RECURSIVE store_reversed(_, _)
\* the loop of add_string_variable: the chars of name from its last to its first
store_reversed(B, name) ==
    IF name = <<>> THEN B
    ELSE store_reversed(store_down(B, byte_of(name[Len(name)])), SubSeq(name, 1, Len(name) - 1))

\* return heap + 1, as uint8_t
return_heap(B) == [B EXCEPT !.returned = uint8(B.heap + 1)]

\* add_string_variable(name)
add_string_variable(B, name) ==
    IF B.fatal THEN B ELSE return_heap(store_reversed(store_down(B, 0), name))

RECURSIVE patch_offsets(_, _)
\* the inner loop of backpatch()
patch_offsets(B, offsets) ==
    IF offsets = <<>> THEN B
    ELSE patch_offsets([B EXCEPT !.code[Head(offsets)] = B.position,
                                 !.position = uint8(@ + 2)],
                       Tail(offsets))

RECURSIVE backpatch(_, _)
\* backpatch(), the unordered_map iterated in the order given
backpatch(B, order) ==
    IF order = <<>> THEN [B EXCEPT !.phase = "patched"]
    ELSE backpatch(patch_offsets(B, B.temp_addresses[Head(order)]), Tail(order))

\* the keys of the map temp_addresses
Keys(B) == {address \in TempAddresses : B.temp_addresses[address] # <<>>}

\* the orders in which an unordered_map with the keys S may be iterated
Orders(S) ==
    {order \in [1..Cardinality(S) -> S] :
        \A i, j \in 1..Cardinality(S) : order[i] = order[j] => i = j}

\* a new buffer after n calls of emit(0xEA), n < MemorySize
emits(n) ==
    [NewCodeBuffer EXCEPT !.code = [i \in Bytes |-> IF i < n THEN 234 ELSE 0],
                          !.position = uint8(n),
                          !.emitted = n]

\* a new buffer after n calls of add_string_variable("ab"), 3 * n < MemorySize
strings(n) ==
    [NewCodeBuffer EXCEPT
         !.code = [i \in Bytes |->
                      IF i <= MemorySize - 1 - (3 * n) THEN 0
                      ELSE CASE (MemorySize - 1 - i) % 3 = 0 -> 0
                             [] (MemorySize - 1 - i) % 3 = 1 -> byte_of("b")
                             [] OTHER -> byte_of("a")],
         !.heap = MemorySize - 1 - (3 * n),
         !.allocated = 3 * n,
         !.returned = uint8(MemorySize - (3 * n))]

\* the strings a program stores
StringNames == {<<>>, <<"a">>, <<"a", "b">>}

\* the calls made on one buffer after the first ones
MaxOps == 4

InitCodeBuffer ==
    /\ cb \in {emits(n) : n \in {0, MemorySize - MaxOps + 1}}
             \cup {strings(MemorySize \div 3)}
    /\ DriverIdle
    /\ p_tokens = <<>>
    /\ p_result = IdleResult
    /\ az = IdleAnalyzer
    /\ lx = IdleLexers

\* one more call on the buffer
Called(B) == [B EXCEPT !.ops = @ + 1]

Emit ==
    /\ cb.phase = "emitting" /\ cb.ops < MaxOps
    /\ \E byte \in {169, 255} : cb' = Called(emit(cb, byte))
    /\ UNCHANGED <<lx, source, lexer, index, pc, tokens_opt, cst_opt, runs, p_tokens, p_result, az>>

EmitOperand ==
    /\ cb.phase = "emitting" /\ cb.ops < MaxOps
    /\ \E operand \in {0, 5} : cb' = Called(emit_operand(cb, 169, operand))
    /\ UNCHANGED <<lx, source, lexer, index, pc, tokens_opt, cst_opt, runs, p_tokens, p_result, az>>

EmitWithTempAddress ==
    /\ cb.phase = "emitting" /\ cb.ops < MaxOps
    /\ \E op \in {141, 172}, address \in TempAddresses :
           cb' = Called(emit_with_temp_address(cb, op, address))
    /\ UNCHANGED <<lx, source, lexer, index, pc, tokens_opt, cst_opt, runs, p_tokens, p_result, az>>

AddStringVariable ==
    /\ cb.phase = "emitting" /\ cb.ops < MaxOps
    /\ \E name \in StringNames :
           cb' = Called(add_string_variable(cb, name))
    /\ UNCHANGED <<lx, source, lexer, index, pc, tokens_opt, cst_opt, runs, p_tokens, p_result, az>>

Backpatch ==
    /\ cb.phase = "emitting" /\ ~cb.fatal
    /\ \E order \in Orders(Keys(cb)) : cb' = backpatch(cb, order)
    /\ UNCHANGED <<lx, source, lexer, index, pc, tokens_opt, cst_opt, runs, p_tokens, p_result, az>>

NextCodeBuffer ==
    \/ Emit
    \/ EmitOperand
    \/ EmitWithTempAddress
    \/ AddStringVariable
    \/ Backpatch

SpecCodeBuffer == InitCodeBuffer /\ [][NextCodeBuffer]_vars

(***************************************************************************)
(* The lexer on a text and on a copy of the text with white space or a     *)
(* comment inserted (Lexer.h, main.cpp: the loop over the programs)        *)
(***************************************************************************)
\* the lexemes a text is put together from
TokenPieces ==
    { <<"{">>, <<"}">>, <<"$">>, <<"a">>, <<"=">>, <<"5">>, <<"\"", "a", "\"">> }

\* white space and terminated comments
Fillers ==
    { <<SPACE>>, <<TAB>>, <<CARRIAGE_RETURN>>, <<NEWLINE>>,
      <<"/", "*", "*", "/">>, <<"/", "*", "a", "*", "/">> }

\* the lexemes p and q, written one after the other, are read as p and q
Separate(p, q) ==
    /\ ~(isalpha(p[Len(p)]) /\ isalpha(q[1]))
    /\ ~(isdigit(p[Len(p)]) /\ isdigit(q[1]))
    /\ ~(p[Len(p)] \in {"=", "!"} /\ q[1] = "=")

RECURSIVE PieceLists(_, _)
\* the lists of at most n lexemes of S, neighbours separate
PieceLists(S, n) ==
    IF n = 0 THEN {<<>>}
    ELSE PieceLists(S, n - 1)
         \cup {Append(w, p) : w \in {w \in PieceLists(S, n - 1) : Len(w) = n - 1}, p \in S}

SeparateLists(S, n) ==
    {w \in PieceLists(S, n) : \A i \in 1..(Len(w) - 1) : Separate(w[i], w[i + 1])}

RECURSIVE Flatten(_)
\* the text of a list of lexemes
Flatten(w) == IF w = <<>> THEN <<>> ELSE Head(w) \o Flatten(Tail(w))

\* the text of w with the filler put after its k-th lexeme
Inserted(w, k, filler) ==
    Flatten(SubSeq(w, 1, k)) \o filler \o Flatten(SubSeq(w, k + 1, Len(w)))

\* the characters between the quotes of a string literal
BodyChars == {"a", SPACE, "A", "1"}

\* the lexemes with a '!' in them, and what may stand next to them
BangPieces == { <<"!">>, <<"!", "=">>, <<"a">>, <<"=">>, <<"5">>, <<"$">> }

\* the lexemes of a text
MaxPieces == 3

\* the characters of a string literal
MaxBody == 3

\* the string literals with a body of at most n characters
StringPieces(n) ==
    {<<"\"">> \o body \o <<"\"">> : body \in PieceLists(BodyChars, n)}

\* the digits of a short run
MaxDigits == 2

\* runs of digits: short ones, INT_MAX, INT_MAX + 1 and 2^32 + 1
DigitRuns(n) ==
    (PieceLists({"0", "5", "9"}, n) \ {<<>>})
    \cup { <<"2", "1", "4", "7", "4", "8", "3", "6", "4", "7">>,
           <<"2", "1", "4", "7", "4", "8", "3", "6", "4", "8">>,
           <<"4", "2", "9", "4", "9", "6", "7", "2", "9", "7">> }

\* what follows a run of digits
AfterDigits ==
    { <<>>, <<EOP>>, <<"}", EOP>>, <<NEWLINE, EOP>>, <<SPACE, "5", EOP>>, <<"a", EOP>>,
      <<"=", "=", EOP>>, <<EOP, "5", EOP>> }

\* lexemes of one character, the line feed and a comment of two lines
LinePieces ==
    { <<"=">>, <<"a">>, <<"5">>, <<EOP>>, <<NEWLINE>>, <<"/", "*", NEWLINE, "*", "/">> }

\* Lexer lexer{source}, twice: on the text of w and on the edited text
NewLexers(w, k, filler) ==
    [phase |-> "scanning",
     pieces |-> w,
     at |-> k,
     filler |-> filler,
     source |-> <<Flatten(w), Inserted(w, k, filler)>>,
     lexer |-> <<NewLexer, NewLexer>>,
     results |-> << <<>>, <<>> >>]

\* the texts of lexemes with a filler between two of them or at the end, the
\* texts with '!' and the texts of one string literal, these unedited
LexerInputs(n, m) ==
    UNION {{NewLexers(w, k, filler) : k \in 1..Len(w), filler \in Fillers} :
              w \in SeparateLists(TokenPieces, n)}
    \cup {NewLexers(w, 0, <<>>) : w \in PieceLists(BangPieces, n)}
    \cup {NewLexers(<<p, <<"$">>>>, 0, <<>>) : p \in StringPieces(m)}
    \cup {NewLexers(<<run, rest>>, 0, <<>>) : run \in DigitRuns(MaxDigits), rest \in AfterDigits}
    \cup {NewLexers(Append(w, <<EOP>>), 0, <<>>) : w \in PieceLists(LinePieces, n)}

InitLexer ==
    /\ lx \in LexerInputs(MaxPieces, MaxBody)
    /\ DriverIdle
    /\ p_tokens = <<>>
    /\ p_result = IdleResult
    /\ az = IdleAnalyzer
    /\ cb = IdleBuffer

\* the kinds and the literals of a token list
Lexemes(t) == [i \in 1..Len(t) |-> <<t[i].type, t[i].value>>]

\* what a call of scan() gave: the optional returned, the tokens the lexer
\* holds, the errors counted and the diagnostics logged
Scanned(r) ==
    [has_value |-> r.has_value,
     value |-> Lexemes(r.value),
     tokens |-> Lexemes(r.L.tokens),
     error_count |-> r.L.error_count,
     diags |-> r.L.diags,
     pos |-> r.L.pos,
     lines |-> [i \in 1..Len(r.L.tokens) |-> r.L.tokens[i].line]]

\* tokens = lexer.scan(); on the k-th text
ScanText(k, r) ==
    [lx EXCEPT !.lexer[k] = r.L, !.results[k] = Append(@, Scanned(r))]

\* while (!lexer.isEOF()) { tokens = lexer.scan(); ... } on the text
ScanBase ==
    /\ lx.phase = "scanning"
    /\ ~isEOF(lx.source[1], lx.lexer[1])
    /\ lx' = ScanText(1, scan(lx.source[1], lx.lexer[1]))
    /\ UNCHANGED <<cb, source, lexer, index, pc, tokens_opt, cst_opt, runs, p_tokens, p_result, az>>

\* while (!lexer.isEOF()) { tokens = lexer.scan(); ... } on the edited text
ScanEdited ==
    /\ lx.phase = "scanning"
    /\ ~isEOF(lx.source[2], lx.lexer[2])
    /\ lx' = ScanText(2, scan(lx.source[2], lx.lexer[2]))
    /\ UNCHANGED <<cb, source, lexer, index, pc, tokens_opt, cst_opt, runs, p_tokens, p_result, az>>

NextLexer ==
    \/ ScanBase
    \/ ScanEdited

SpecLexer == InitLexer /\ [][NextLexer]_vars

(***************************************************************************)
(* The driver (main.cpp)                                                   *)
(***************************************************************************)
\* The stages a program of the file went through are in order
StagesGated ==
    \A i \in 1..Len(runs) :
        /\ runs[i].parsed => runs[i].lexed
        /\ runs[i].analyzed => runs[i].parsed /\ runs[i].parse_errors = 0

\* A step taken after a stage has failed runs no further stage for that
\* program and leads to the top of the loop, where the next program is read
\* from where the Lexer stopped
FailureSkips ==
    (\/ pc = "scanned" /\ ~tokens_opt.has_value
     \/ pc = "parsed" /\ ~cst_opt.has_value)
    => pc' = "loop" /\ runs' = runs /\ lexer' = lexer /\ index' = index

\* C1: every program runs lex, then parse, then semantic analysis; parsing
\* runs only if lexing returned tokens and semantic analysis only if parsing
\* returned a tree without errors; after a failed stage the remaining stages
\* of that program are skipped and the driver goes on with the next program.
C1_StagesInOrder == [](StagesGated) /\ [][FailureSkips]_vars

\* A file whose first program fails in the Lexer, whose second fails in the
\* Parser and whose third is analyzed
C1_Witness ==
    \E i, j, k \in 1..Len(runs) :
        /\ i < j /\ j < k
        /\ ~runs[i].lexed /\ ~runs[i].parsed /\ ~runs[i].analyzed
        /\ runs[j].lexed /\ runs[j].parsed /\ runs[j].parse_errors > 0 /\ ~runs[j].analyzed
        /\ runs[k].analyzed

RECURSIVE NextProgramEnd(_, _, _)
\* The number of characters of src up to and including the first end marker
\* outside a comment at or after character p, or up to the end of input
NextProgramEnd(src, p, in_comment) ==
    IF p > Len(src) THEN Len(src)
    ELSE IF in_comment
    THEN IF src[p] = "*" /\ p < Len(src) /\ src[p + 1] = "/"
         THEN NextProgramEnd(src, p + 2, FALSE)
         ELSE NextProgramEnd(src, p + 1, TRUE)
    ELSE IF src[p] = "/" /\ p < Len(src) /\ src[p + 1] = "*"
    THEN NextProgramEnd(src, p + 2, TRUE)
    ELSE IF src[p] = EOP THEN p
    ELSE NextProgramEnd(src, p + 1, FALSE)

\* The characters consumed when the Lexer stands at pos
Consumed(pos) == IF pos > Len(source) THEN Len(source) ELSE pos

\* C2: every call of scan() consumes the input up to and including the next
\* end marker of a program, or to the end of input, and no more.
C2_ScanConsumesOneProgram ==
    \A i \in 1..Len(runs) :
        Consumed(runs[i].to) = NextProgramEnd(source, runs[i].from + 1, FALSE)

\* C3: scan() returns the tokens exactly when no diagnostic of level ERROR
\* was logged during the call; a last program without its end marker is
\* logged as an error.
C3_TokensIffNoError ==
    pc = "scanned" =>
        (tokens_opt.has_value <=> \A i \in 1..Len(lexer.diags) : lexer.diags[i][1] # "ERROR")

(***************************************************************************)
(* The Parser (Parser.h)                                                   *)
(***************************************************************************)
\* C4: for a token sequence that ends in a single EOP, parse() returns a
\* tree and counts no error exactly when the sequence is derivable from
\* Program in the grammar.
C4_ParseIffDerivable ==
    p_result.done =>
        ((p_result.has_value /\ p_result.errors = 0) <=> G_Program(KindsOf(p_tokens)))

\* A program with a while, an if, a declaration and an assignment was accepted
C4_Witness ==
    /\ p_result.done
    /\ p_result.has_value
    /\ \E i, j \in 1..Len(p_tokens) : p_tokens[i].type = "WHILE" /\ p_tokens[j].type = "IF"

(***************************************************************************)
(* The semantic analyzer (SemanticAnalyzer.h, SymbolTable.h)               *)
(*                                                                         *)
(* Block scoping as the language defines it, read off the tokens: every    *)
(* block opens a scope and closes it at its closing brace, a declaration   *)
(* belongs to the innermost open block and the first declaration of a name *)
(* in a block stands.  A scope is a set of <<name, line of declaration>>.  *)
(***************************************************************************)
Declares(scope, name) == \E e \in scope : e[1] = name

\* the scopes after token q, given the scopes S before it
LexicalStep(S, t, q) ==
    CASE t[q].type = "OPEN_BLOCK" -> Append(S, {})
      [] t[q].type = "CLOSE_BLOCK" /\ S # <<>> -> SubSeq(S, 1, Len(S) - 1)
      [] /\ t[q].type = "ID" /\ q > 1 /\ t[q - 1].type = "I_TYPE" /\ S # <<>>
         /\ ~Declares(S[Len(S)], t[q].value) ->
             [S EXCEPT ![Len(S)] = @ \cup {<<t[q].value, q - 1>>}]
      [] OTHER -> S

RECURSIVE LexicalScopes(_, _)
\* the scopes open just before token p, outermost first
LexicalScopes(t, p) ==
    IF p <= 1 THEN <<>> ELSE LexicalStep(LexicalScopes(t, p - 1), t, p - 1)

RECURSIVE Resolve(_, _)
\* the line of the declaration a reference to name denotes, 0 if there is none
Resolve(S, name) ==
    IF S = <<>> THEN 0
    ELSE IF Declares(S[Len(S)], name)
    THEN (CHOOSE e \in S[Len(S)] : e[1] = name)[2]
    ELSE Resolve(SubSeq(S, 1, Len(S) - 1), name)

RECURSIVE IdLeaves(_)
\* the identifiers a statement refers to, those of a block it holds left out
IdLeaves(node) ==
    IF node.type = "ID" THEN {node}
    ELSE IF node.type = "BLOCK" THEN {}
    ELSE UNION {IdLeaves(node.children[i]) : i \in 1..Len(node.children)}

\* the node of the call of analyze_node that is due
DueNode == Head(az.agenda).node

\* the entries made in `counted` by the step
NewlyCounted(why) ==
    {i \in (Len(az.counted) + 1)..Len(az'.counted) : az'.counted[i][1] = why}

\* C5: every lookup of a name finds the declaration that block scoping
\* gives it: the one of the innermost enclosing block that declares the
\* name, and none when only a block already left declares it.
C5_LookupFollowsBlocks ==
    \A i \in 1..Len(az.lookups) :
        az.lookups[i].decl =
            Resolve(LexicalScopes(az.tokens, az.lookups[i].at), az.lookups[i].name)

\* C6: the scope stack holds currentScopeLevel + 1 frames, and is empty
\* once the outermost block has been analyzed.
C6_FramesMatchLevel ==
    az.phase \in {"analyzing", "returned"} =>
        /\ Len(az.symbol_table.scopes) = az.symbol_table.currentScopeLevel + 1
        /\ az.phase = "returned" => az.symbol_table.scopes = <<>>

\* C7: a declaration of a name that the same block has already declared
\* counts exactly one error and leaves the symbols as they were, also when
\* a nested block stands between the two declarations.
C7_RedeclarationIsError ==
    [][(/\ Due({"VARIABLE_DECLARATION"})
        /\ Declares(LexicalScopes(az.tokens, DueNode.children[1].line)
                        [Len(LexicalScopes(az.tokens, DueNode.children[1].line))],
                    DueNode.children[2].value))
       => /\ az'.error_count = az.error_count + 1
          /\ az'.symbol_table.scopes = az.symbol_table.scopes]_vars

\* C8: a statement counts one undeclared-variable error for each of its
\* references to an identifier that has no visible declaration.
C8_UndeclaredCounted ==
    [][Due({"ASSIGNMENT_STATEMENT", "PRINT_STATEMENT", "IF_STATEMENT", "WHILE_STATEMENT"})
       => Cardinality(NewlyCounted("undeclared")) =
              Cardinality({id \in IdLeaves(DueNode) :
                              Resolve(LexicalScopes(az.tokens, id.line), id.value) = 0})]_vars

\* the symbol an assignment is to, as findSymbol returns it
TargetFound == findSymbol(az.symbol_table, DueNode.children[1].value).found

TargetFrame == findSymbol(az.symbol_table, DueNode.children[1].value).frame + 1

TargetType ==
    node_to_data_type(az.symbol_table.scopes[TargetFrame][DueNode.children[1].value].type)

\* the type of the expression assigned
AssignedType == evaluate_expression(az, DueNode.children[2]).type

\* C9: an assignment of an expression of a known type to a variable declared
\* with another type counts an error and does not mark the variable
\* initialized.
C9_MismatchIsError ==
    [][(/\ Due({"ASSIGNMENT_STATEMENT"})
        /\ TargetFound
        /\ AssignedType # "Unknown"
        /\ AssignedType # TargetType)
       => /\ az'.error_count = az.error_count + 1
          /\ ~az'.symbol_table.scopes[TargetFrame][DueNode.children[1].value].isInitialized
      ]_vars

\* { int a a = 5 print ( a ) } $
DeclareAssignPrint ==
    OnLines(<<tkOpenBlock, tkInt, tkA, tkA, tkAssign, tkFive, Tk("PRINT", KW_print),
              tkOpenParen, tkA, tkCloseParen, tkCloseBlock, tkEOP>>)

\* C10: an assignment of an expression of the declared type marks the
\* variable initialized; after {int a a=5 print(a)}$ the symbol a is
\* initialized and used and no error is counted.
C10_MatchInitializes ==
    [][/\ (/\ Due({"ASSIGNMENT_STATEMENT"})
           /\ TargetFound
           /\ AssignedType = TargetType)
          => az'.symbol_table.scopes[TargetFrame][DueNode.children[1].value].isInitialized
       /\ (az'.phase = "returned" /\ az'.tokens = DeclareAssignPrint)
          => /\ az'.error_count = 0
             /\ az'.symbol_table.scopes[1][<<"a">>].isInitialized
             /\ az'.symbol_table.scopes[1][<<"a">>].isUsed]_vars

(***************************************************************************)
(* Declarations and their uses, read off the tokens.  A declaration is     *)
(* named by the position q of its type keyword.                            *)
(***************************************************************************)
Declarations(t) ==
    {q \in 1..(Len(t) - 1) :
        /\ t[q].type = "I_TYPE" /\ t[q + 1].type = "ID"
        /\ LexicalScopes(t, q) # <<>>
        /\ ~Declares(LexicalScopes(t, q)[Len(LexicalScopes(t, q))], t[q + 1].value)}

\* the positions of the identifiers that denote the declaration q
ReferencesTo(t, q) ==
    {p \in 2..(Len(t) - 1) :
        /\ t[p].type = "ID" /\ t[p - 1].type # "I_TYPE"
        /\ Resolve(LexicalScopes(t, p), t[p].value) = q}

\* the token kind that begins a literal of the type a keyword names
LiteralOf(keyword) ==
    CASE keyword = KW_int -> "NUMBER"
      [] keyword = KW_string -> "QUOTE"
      [] OTHER -> "BOOL_VAL"

\* q is the target of an assignment of a literal of its type
AssignedTo(t, q) ==
    \E p \in ReferencesTo(t, q) :
        t[p + 1].type = "ASSIGN_OP" /\ t[p + 2].type = LiteralOf(t[q].value)

\* q is referred to in a print, an expression or a condition
ReferredTo(t, q) == \E p \in ReferencesTo(t, q) : t[p + 1].type # "ASSIGN_OP"

\* C11: a variable that is declared and assigned but never referred to in
\* a print, an expression or a condition gets the warning "declared and
\* initialized but never used" when its block is left.
C11_AssignedUnusedWarned ==
    (az.phase = "returned" /\ az.calls = 1) =>
        \A q \in Declarations(az.tokens) :
            (AssignedTo(az.tokens, q) /\ ~ReferredTo(az.tokens, q)) =>
                \E i \in 1..Len(az.symbol_table.warnings) :
                    <<"declared and initialized but never used", az.tokens[q + 1].value, q>>
                        \in az.symbol_table.warnings[i]

\* the symbol the identifier printed denotes, as findSymbol returns it
PrintedFound == findSymbol(az.symbol_table, DueNode.children[1].value).found

PrintedFrame == findSymbol(az.symbol_table, DueNode.children[1].value).frame + 1

\* { int a print ( a ) } $
DeclarePrint ==
    OnLines(<<tkOpenBlock, tkInt, tkA, Tk("PRINT", KW_print), tkOpenParen, tkA,
              tkCloseParen, tkCloseBlock, tkEOP>>)

\* C12: printing a declared identifier counts no error, whether or not the
\* variable has been assigned, and marks the symbol used; after
\* {int a print(a)}$ no error is counted and a is used and not initialized.
C12_DeclaredReferenceIsLegal ==
    [][/\ (/\ az.calls = 1
           /\ Due({"PRINT_STATEMENT"})
           /\ DueNode.children[1].type = "ID"
           /\ PrintedFound)
          => /\ az'.error_count = az.error_count
             /\ az'.symbol_table.scopes[PrintedFrame][DueNode.children[1].value].isUsed
       /\ (az'.phase = "returned" /\ az'.calls = 1 /\ az'.tokens = DeclarePrint)
          => /\ az'.error_count = 0
             /\ az'.symbol_table.scopes[1][<<"a">>].isUsed
             /\ ~az'.symbol_table.scopes[1][<<"a">>].isInitialized]_vars

\* C13: the call of analyze_node for an if or a while statement, whatever
\* the form of its condition, is followed by the analysis of the
\* statement's body, the block that is its last child.
C13_BodyAnalyzed ==
    [][Due({"IF_STATEMENT", "WHILE_STATEMENT"})
       => /\ az'.agenda # <<>>
          /\ Head(az'.agenda) = CallAnalyzeNode(DueNode.children[Len(DueNode.children)])
          /\ Head(az'.agenda).node.type = "BLOCK"]_vars

\* C14: analyze() returns an AST exactly when it has counted no error.
C14_ErrorsFailAnalysis ==
    az.phase = "returned" => (az.has_value <=> az.error_count = 0)

RECURSIVE WarningCount(_)
\* the warnings printed by the calls of exitScope in w
WarningCount(w) ==
    IF w = <<>> THEN 0 ELSE Cardinality(Head(w)) + WarningCount(Tail(w))

\* C17: a second call of analyze() on the same analyzer ends with the
\* symbol table contents, the error count and the number of warnings that
\* the first call ended with.
C17_AnalyzeIdempotent ==
    (az.phase = "returned" /\ az.calls = 2) =>
        /\ az.error_count = az.previous.error_count
        /\ az.symbol_table.scopes = az.previous.scopes
        /\ WarningCount(az.symbol_table.warnings) = 2 * WarningCount(az.previous.warnings)

\* C15: the bytes stored by emit from address 0 upwards and the bytes
\* stored by add_string_variable from address 255 downwards never share a
\* cell of the image: together they are at most the size of the image
\* unless the fatal error was raised.
C15_RegionsNeverOverlap ==
    (cb.phase = "emitting" /\ ~cb.fatal) => cb.emitted + cb.allocated <= MemorySize

\* the two bytes of the image at a placeholder
PlaceholderAt(offset) == <<cb.code[offset], cb.code[uint8(offset + 1)]>>

\* the places recorded by emit_with_temp_address: temp address and offset
Placeholders ==
    {p \in TempAddresses \X Bytes :
        \E i \in DOMAIN cb.temp_addresses[p[1]] : cb.temp_addresses[p[1]][i] = p[2]}

\* the code, the strings and two bytes for every placeholder fit the image
ImageFits == cb.emitted + cb.allocated + 2 * Cardinality(Placeholders) <= MemorySize

\* C16: after backpatch() on an image that fits, the placeholders of one
\* symbol hold the same address, those of different symbols hold different
\* addresses, and none holds its temp address.
C16_BackpatchResolves ==
    (cb.phase = "patched" /\ ImageFits) =>
        \A p, q \in Placeholders :
            /\ (p[1] = q[1]) <=> (PlaceholderAt(p[2]) = PlaceholderAt(q[2]))
            /\ PlaceholderAt(p[2]) # <<p[1] % 256, (p[1] \div 256) % 256>>

\* both texts are scanned to their ends
BothScanned ==
    /\ lx.phase = "scanning"
    /\ isEOF(lx.source[1], lx.lexer[1])
    /\ isEOF(lx.source[2], lx.lexer[2])

\* C18: white space or a terminated comment put between two tokens or after
\* the last one changes neither the number of programs scan() finds, nor
\* the success or failure of a program, nor the kinds and literals of the
\* tokens it returns.
C18_FillerIsInsignificant ==
    (/\ BothScanned
     /\ lx.at > 0
     /\ (lx.at < Len(lx.pieces) \/ lx.pieces[lx.at] = <<EOP>>)) =>
        /\ Len(lx.results[2]) = Len(lx.results[1])
        /\ \A i \in 1..Len(lx.results[1]) :
               /\ lx.results[2][i].has_value = lx.results[1][i].has_value
               /\ lx.results[2][i].value = lx.results[1][i].value

\* the text holds a '!' that no '=' follows
LoneBang(src) ==
    \E i \in 1..Len(src) : src[i] = "!" /\ (i = Len(src) \/ src[i + 1] # "=")

\* the text with a space in the place of every such '!'
Blanked(src) ==
    [i \in 1..Len(src) |->
        IF src[i] = "!" /\ (i = Len(src) \/ src[i + 1] # "=") THEN SPACE ELSE src[i]]

\* the text the first call of scan() read
FirstProgram ==
    SubSeq(lx.source[1], 1,
           IF lx.lexer[1].pos > Len(lx.source[1]) THEN Len(lx.source[1]) ELSE lx.lexer[1].pos)

\* C19: a '!' that is not followed by '=' is a lexical error: the call of
\* scan() that reads it counts an error and fails, no token is emitted for
\* the '!', and the characters after it are scanned as they are without it.
C19_LoneBangIsError ==
    (lx.at = 0 /\ Len(lx.results[1]) = 1 /\ LoneBang(FirstProgram)) =>
        /\ ~lx.results[1][1].has_value
        /\ lx.results[1][1].error_count > 0
        /\ lx.results[1][1].tokens = Lexemes(scan(Blanked(FirstProgram), NewLexer).L.tokens)

\* the CHAR tokens of the lowercase letters and spaces of a string body
RECURSIVE CharsOf(_)
CharsOf(body) ==
    IF body = <<>> THEN <<>>
    ELSE (IF islower(Head(body)) \/ Head(body) = SPACE
          THEN << <<"CHAR", <<Head(body)>>>> >> ELSE <<>>) \o CharsOf(Tail(body))

\* the string literal the text begins with, without its quotes
Body == SubSeq(lx.pieces[1], 2, Len(lx.pieces[1]) - 1)

\* C20: for a quoted string the lexer emits QUOTE, one CHAR for every
\* lowercase letter or space between the quotes, and QUOTE; a character
\* that is neither is an error and the characters after it still become
\* CHAR tokens.
C20_StringCharByChar ==
    (/\ lx.at = 0
     /\ Len(lx.pieces) = 2
     /\ Head(lx.pieces[1]) = "\""
     /\ Len(lx.results[1]) = 1) =>
        /\ lx.results[1][1].tokens
               = << <<"QUOTE", <<"\"">>>> >> \o CharsOf(Body)
                 \o << <<"QUOTE", <<"\"">>>>, <<"EOP", <<"$">>>> >>
        /\ lx.results[1][1].has_value
               <=> \A i \in 1..Len(Body) : islower(Body[i]) \/ Body[i] = SPACE

\* the decimal numeral of a run of digits: the run without its leading zeros
RECURSIVE Numeral(_)
Numeral(run) ==
    IF Len(run) > 1 /\ Head(run) = "0" THEN Numeral(Tail(run)) ELSE run

\* the text begins with a maximal run of digits, the first of its two pieces
DigitsFirst ==
    /\ lx.at = 0
    /\ Len(lx.pieces) = 2
    /\ \A i \in 1..Len(lx.pieces[1]) : isdigit(lx.pieces[1][i])
    /\ lx.pieces[1] # <<>>
    /\ (lx.pieces[2] = <<>> \/ ~isdigit(lx.pieces[2][1]))

\* the tokens and the position of the first scan() of a text, none for no text
TokensOf(text) == IF text = <<>> THEN <<>> ELSE Lexemes(scan(text, NewLexer).L.tokens)

Reach(text) == IF text = <<>> THEN 0 ELSE scan(text, NewLexer).L.pos

\* C21: a maximal run of digits gives one NUMBER token with the decimal
\* numeral of the run, and the text after the run is scanned as it is
\* scanned on its own: a `$` right after the digits ends the program.
C21_DigitRunIsOneNumber ==
    (DigitsFirst /\ Len(lx.results[1]) >= 1) =>
        /\ lx.results[1][1].tokens
               = << <<"NUMBER", Numeral(lx.pieces[1])>> >> \o TokensOf(lx.pieces[2])
        /\ lx.results[1][1].pos = Len(lx.pieces[1]) + Reach(lx.pieces[2])

\* parse() was called on a token sequence that ends in EOP
ParsedToEOP ==
    /\ p_result.done
    /\ p_tokens # <<>>
    /\ p_tokens[Len(p_tokens)].type = "EOP"

\* C22: parse() returns on every token sequence that ends in EOP: no call
\* of parse_statement_list or parse_expression is made inside a call of the
\* same function with the cursor where that call found it, every turn of
\* the loop of parse_char_list moves the cursor, and the cursor is never
\* read at the end of the tokens.
C22_ParseTerminates == ParsedToEOP => (~p_result.stuck /\ ~p_result.oob)

\* a malformed sequence, match having left the cursor on a mismatching
\* token, with calls of a function inside calls of the same function
C22_Witness == ParsedToEOP /\ p_result.errors > 1 /\ p_result.descents > 2

\* a stage reported an error for the i-th program of the file
StageFailed(i) ==
    \/ ~runs[i].lexed
    \/ runs[i].parsed /\ runs[i].parse_errors > 0
    \/ runs[i].analyzed /\ runs[i].analysis_errors > 0

\* C23: main returns 0 (pc = "done") only if no stage reported an error for
\* any program of the file.
C23_ExitStatusTellsFailure ==
    pc = "done" => \A i \in 1..Len(runs) : ~StageFailed(i)

\* the frame of the block that is being analyzed, as an index of scopes
CurrentFrame == az.symbol_table.currentScopeLevel + 1

\* C24: a variable declaration puts the name in the frame of the block that
\* is being analyzed, also after a nested block of that block was entered
\* and left, and changes no other frame.
C24_DeclaredInCurrentFrame ==
    [][(Due({"VARIABLE_DECLARATION"}) /\ az.calls = 1)
       => /\ Len(az'.symbol_table.scopes) = Len(az.symbol_table.scopes)
          /\ DueNode.children[2].value \in DOMAIN az'.symbol_table.scopes[CurrentFrame]
          /\ \A k \in 1..Len(az.symbol_table.scopes) :
                 k # CurrentFrame =>
                     az'.symbol_table.scopes[k] = az.symbol_table.scopes[k]]_vars


(***************************************************************************)
(* Type inference of the expression of a print statement.                  *)
(***************************************************************************)
\* the nodes the expression of the print statement left in the AST
Printed == DueNode.children

\* the expression is a parenthesized comparison
Compared == Len(Printed) >= 2 /\ Printed[2].type = "BOOLEAN_OPERATION"

\* the expression is one of the forms whose type is known
Typed ==
    /\ Printed # <<>>
    /\ \/ Compared
       \/ Printed[1].type \in {"INT_EXPRESSION", "CHAR_LIST", "BOOLEAN_EXPRESSION"}
       \/ Printed[1].type = "ID" /\ findSymbol(az.symbol_table, Printed[1].value).found

DeclaredType(name) ==
    node_to_data_type(
        az.symbol_table.scopes[findSymbol(az.symbol_table, name).frame + 1][name].type)

TypeOfForm ==
    IF Compared THEN "Boolean"
    ELSE CASE Printed[1].type = "INT_EXPRESSION" -> "Int"
           [] Printed[1].type = "CHAR_LIST" -> "String"
           [] Printed[1].type = "BOOLEAN_EXPRESSION" -> "Boolean"
           [] OTHER -> DeclaredType(Printed[1].value)

\* C25: the type inferred for an expression is Int for a number literal,
\* String for a char list, Boolean for a boolean literal or a parenthesized
\* comparison and the declared type for a declared identifier, and no error
\* is counted in any of these cases.
C25_InferredTypes ==
    [][(Due({"PRINT_STATEMENT"}) /\ Typed)
       => /\ evaluate_expression(az, Printed[1]).type = TypeOfForm
          /\ az'.error_count = az.error_count
      ]_vars


(***************************************************************************)
(* Termination of the lexer and of the loop of main() over the programs.   *)
(***************************************************************************)
\* the last call of scan() read an unterminated comment or string
ReadToTheEnd ==
    \E i \in 1..Len(lexer.diags) :
        lexer.diags[i][2] \in {"Unterminated comment", "Unterminated string"}

\* C26: every call of scan() returns, having consumed at least one
\* character and having read no further than the end of the text, also
\* when a comment or a string is not terminated, and so the loop
\* `while (!lexer.isEOF())` of main() comes to its end.
C26_ScanTerminates ==
    /\ [][LexProgram => (lexer'.pos > lexer.pos /\ lexer'.pos <= Len(source) + 1)]_vars
    /\ <>Finished

C26_Witness == pc = "done" /\ Len(runs) >= 2 /\ ReadToTheEnd /\ lexer.pos >= Len(source)


(***************************************************************************)
(* The line recorded in a token.                                           *)
(***************************************************************************)
\* the piece is white space or a comment, or nothing at all
IsFiller(p) ==
    \/ p = <<>>
    \/ isspace(p[1])
    \/ Len(p) >= 2 /\ p[1] = "/" /\ p[2] = "*"

\* the places of the lexemes among the pieces of the text
LexemePlaces == {i \in 1..Len(lx.pieces) : ~IsFiller(lx.pieces[i])}

\* the place of the k-th lexeme
PlaceOf(k) ==
    CHOOSE i \in LexemePlaces : Cardinality({j \in LexemePlaces : j <= i}) = k

\* the tokens of all the programs of the text and the lines recorded in them
TokensOfText == Flatten([c \in 1..Len(lx.results[1]) |-> lx.results[1][c].tokens])

LinesOfText == Flatten([c \in 1..Len(lx.results[1]) |-> lx.results[1][c].lines])

\* every lexeme of the text has become one token, and no other token was made
TokenPerLexeme ==
    /\ lx.phase = "scanning"
    /\ isEOF(lx.source[1], lx.lexer[1])
    /\ Len(TokensOfText) = Cardinality(LexemePlaces)
    /\ \A k \in 1..Len(TokensOfText) : TokensOfText[k][2] = lx.pieces[PlaceOf(k)]

LineFeeds(text) == Cardinality({i \in 1..Len(text) : text[i] = NEWLINE})

\* the line of the first character of the piece at place i
LineOfPlace(i) == 1 + LineFeeds(Flatten(SubSeq(lx.pieces, 1, i - 1)))

\* C27: the line recorded in a token is 1 plus the number of line feeds that
\* precede the first character of the token in the whole text, over all the
\* programs of the text.
C27_LineOfToken ==
    TokenPerLexeme
        => \A k \in 1..Len(TokensOfText) : LinesOfText[k] = LineOfPlace(PlaceOf(k))


(***************************************************************************)
(* A string put into the heap of the image.                                *)
(***************************************************************************)
\* the step is the call add_string_variable(name)
StoresString(name) ==
    /\ cb.phase = "emitting" /\ cb.ops < MaxOps /\ ~cb.fatal
    /\ cb' = Called(add_string_variable(cb, name))

\* the image holds the characters of name and a 0 from the address on, upward
HoldsString(B, address, name) ==
    /\ \A i \in 1..Len(name) :
           /\ address + i - 1 \in Bytes
           /\ B.code[address + i - 1] = byte_of(name[i])
    /\ address + Len(name) \in Bytes
    /\ B.code[address + Len(name)] = 0

\* C28: add_string_variable(s) lowers the heap pointer, a byte wide, by len(s) + 1, returns
\* the address of the first character of s, from which on, upward, the image
\* holds the characters of s in their order and then a 0, and leaves the
\* bytes of the strings stored before as they were.
C28_StringStored ==
    [][\A name \in StringNames :
           StoresString(name)
               => /\ cb'.heap = uint8(cb.heap + MemorySize - (Len(name) + 1))
                  /\ cb'.returned = uint8(cb'.heap + 1)
                  /\ HoldsString(cb', cb'.returned, name)
                  /\ \A a \in Bytes : a > cb.heap => cb'.code[a] = cb.code[a]
      ]_vars


\* C29: on the tokens of every program that scan() returned as a success,
\* the parser reads *current_token only while it points at a token of the
\* vector, never at its end.
C29_ParserReadsTokensOnly ==
    \A i \in 1..Len(runs) : (runs[i].lexed /\ runs[i].parsed) => ~runs[i].read_past_end


(***************************************************************************)
(* The terminals of the CST.                                               *)
(***************************************************************************)
RECURSIVE Leaves(_)
\* the values of the terminals below the node, from left to right
Leaves(node) ==
    IF node.name = "" THEN <<node.value>>
    ELSE Flatten([i \in 1..Len(node.children) |-> Leaves(node.children[i])])

\* C30: when parse() succeeds, the terminals of the CST it returns, from
\* left to right, are the literals of the tokens in their order: one
\* terminal for every token, the punctuation and the final `$` too, and no
\* other terminal.
C30_LeavesAreTheTokens ==
    (p_result.done /\ p_result.has_value)
        => Leaves(p_result.cst) = [i \in 1..Len(p_tokens) |-> p_tokens[i].value]

C30_Witness ==
    /\ p_result.done /\ p_result.has_value
    /\ Len(p_tokens) >= 8
    /\ \E i \in 1..Len(p_tokens) : p_tokens[i].type = "QUOTE"
    /\ Len(p_result.cst.children) = 2
    /\ Leaves(p_result.cst)[Len(p_tokens)] = <<EOP>>

=============================================================================
